---- MODULE Spec2Model ----
(***************************************************************************)
(* Model of the SmartMet geonames engine (fmidev/smartmet-engine-geonames):*)
(* the generation pointer of Engine (init, shutdown, reload, queries), the *)
(* loader of a generation (Impl::init, Impl::initSuggest) and the result   *)
(* cache of the database backed searches (Impl::name_search and friends).  *)
(***************************************************************************)
EXTENDS Integers, Sequences, FiniteSets, TLC

\* ---------------------------------------------------------------- bounds
\* number of Impl objects (generations) that are ever constructed
MaxGen == 3

\* ------------------------------------------------------------- constants
NoGen == 0
Gens == 1..MaxGen

\* threads of the model
Reloaders == {"r1", "r2"}
Queries == {"q1"}

\* configuration of the load: database and autocomplete enabled, mock mode
\* (disable_autocomplete), database disabled
Modes == {"full", "mock", "nodb"}

MsgNone == ""
MsgInProgress == "Geo reload was already in progress"
MsgLoadFailed == "Operation failed"
MsgException == "C++ exception while reloading geonames"
MsgNotReady == "Attempt to use geonames suggest before it is ready!"

VARIABLES
  mode,             \* Impl::itsDatabaseDisabled / itsAutocompleteDisabled (config)
  impl,             \* Engine::impl, the published generation (NoGen = null)
  tmpImpl,          \* Engine::tmpImpl
  itsReloading,     \* Engine::itsReloading
  itsErrorMessage,  \* Engine::itsErrorMessage
  initFailed,       \* Engine::initFailed
  gens,             \* the Impl objects: fields of each generation
  killed,           \* the process was ended by kill(getpid(), SIGKILL)
  initPc,           \* position of the thread running Engine::init
  shutPc,           \* position of the thread running Engine::shutdown
  shutGen,          \* the generation Engine::shutdown acts on
  rpc,              \* position of each thread calling Engine::reload
  rp,               \* local p of Engine::reload
  rret,             \* value returned by the last Engine::reload of the thread
  qpc,              \* position of each query thread
  qkind,            \* the query the thread runs
  qstep,            \* index of the step of the query
  qgen,             \* mycopy of the current step of the query
  qgens,            \* the generations the steps of the query have used so far
  qres,             \* outcome of the query
  cache,            \* Impl::itsNameSearchCache of one generation, LRU order
  deny,             \* Impl::itsForbiddenNamePatterns
  lastOp,           \* the last search made on the cache
  fminames,         \* the rows of the fminames database the loader reads
  loadPc,           \* the step of Impl::initSuggest that runs next
  itsLocations,     \* Impl::itsLocations, the location store
  itsGeoIdMap,      \* Impl::itsGeoIdMap: geoid -> position in the store
  itsAlternateNames,      \* Impl::itsAlternateNames: geoid -> language -> name
  itsKeywords,            \* Impl::itsKeywords: keyword -> members
  itsGeoTrees,            \* Impl::itsGeoTrees: keyword -> near tree
  itsTernaryTrees,        \* Impl::itsTernaryTrees: keyword -> trie
  itsLangTernaryTreeMap,  \* Impl::itsLangTernaryTreeMap: language -> keyword -> trie
  lastQuery,        \* the last suggest or nearest query and what it returned
  ranked,           \* a location list given to Impl::assign_priorities, and the calls made
  sql               \* the SQL phase of one Impl::initSuggest: flags, result sets, position

engineVars == <<mode, impl, tmpImpl, itsReloading, itsErrorMessage, initFailed, gens, killed>>
initVars == <<initPc, shutPc, shutGen>>
reloadVars == <<rpc, rp, rret>>
queryVars == <<qpc, qkind, qstep, qgen, qgens, qres>>
cacheVars == <<cache, deny, lastOp>>
unitVars == <<ranked, sql>>
dataVars == <<fminames, loadPc, itsLocations, itsGeoIdMap, itsAlternateNames, itsKeywords,
              itsGeoTrees, itsTernaryTrees, itsLangTernaryTreeMap, lastQuery>>
vars == <<mode, impl, tmpImpl, itsReloading, itsErrorMessage, initFailed, gens, killed,
          initPc, shutPc, shutGen, rpc, rp, rret,
          qpc, qkind, qstep, qgen, qgens, qres,
          cache, deny, lastOp,
          fminames, loadPc, itsLocations, itsGeoIdMap, itsAlternateNames, itsKeywords,
          itsGeoTrees, itsTernaryTrees, itsLangTernaryTreeMap, lastQuery,
          ranked, sql>>

\* ------------------------------------------------------------ generations

\* The steps of Impl::initSuggest between two interruption points.
LoadSteps(m) ==
  IF m = "full" THEN
    <<"hash", "countries", "municipalities", "geonames", "geoid_map",
      "alternate_geonames", "alternate_municipalities", "keywords",
      "geotrees", "ternarytrees", "lang_ternarytrees", "priorities">>
  ELSE IF m = "mock" THEN
    <<"hash", "countries", "geotrees", "ternarytrees", "lang_ternarytrees", "priorities">>
  ELSE
    <<"geotrees", "ternarytrees", "lang_ternarytrees", "priorities">>

\* the steps inside the inner try block of initSuggest (the SQL phase)
SqlSteps == {"hash", "countries", "municipalities", "geonames", "geoid_map",
             "alternate_geonames", "alternate_municipalities", "keywords"}

\* Fmi::AsyncTask::interruption_point() precedes every step but the first SQL one
HasInterruptionPoint(step) == step # "hash"

\* an Impl that was not constructed yet (or was destroyed again)
NoImpl == [state |-> "unborn", itsReloading |-> FALSE, itsReady |-> FALSE,
           itsReloadOK |-> FALSE, itsReloadError |-> MsgNone,
           itsSuggestReadyFlag |-> FALSE, loaded |-> 0,
           task |-> "none", stopped |-> FALSE]

\* Impl::Impl(configfile, reloading)
NewImpl(reloading) == [NoImpl EXCEPT !.state = "live", !.itsReloading = reloading]

\* ~Impl(): the last reference to the generation was dropped
DroppedImpl == [NoImpl EXCEPT !.state = "dropped"]

\* the first generation after Engine::init and its initSuggest task completed
LoadedImpl(m) ==
  [NewImpl(FALSE) EXCEPT !.itsReady = TRUE, !.itsReloadOK = TRUE,
                         !.itsSuggestReadyFlag = TRUE,
                         !.loaded = Len(LoadSteps(m)),
                         !.task = "done"]

\* the first generation when Engine::init has returned and its initSuggest
\* task has written the last table but not yet set the ready flags
LoadingImpl(m) ==
  [NewImpl(FALSE) EXCEPT !.itsReady = TRUE, !.loaded = Len(LoadSteps(m)),
                         !.task = "running"]

\* the identity of the next Impl that std::make_shared<Impl> constructs
FreshGen == IF \E g \in Gens : gens[g].state = "unborn"
            THEN CHOOSE g \in Gens : gens[g].state = "unborn"
                                     /\ \A h \in Gens : h < g => gens[h].state # "unborn"
            ELSE NoGen

\* one step of initSuggest that completed: its tables are written
LoadStepDone(g) == [gens EXCEPT ![g].loaded = @ + 1]

\* the end of initSuggest without itsReloadOK = true
LoadReady_FlagOnly(g) == [gens EXCEPT ![g].itsSuggestReadyFlag = TRUE]

\* the end of initSuggest: itsReloadOK = true; itsSuggestReadyFlag = true
LoadReady(g) == [gens EXCEPT ![g].itsReloadOK = TRUE, ![g].itsSuggestReadyFlag = TRUE]

\* the catch (...) of the SQL phase of initSuggest in a reload
LoadReloadError(g) ==
  [gens EXCEPT ![g].itsReloadError = MsgLoadFailed, ![g].itsReloadOK = FALSE,
               ![g].itsReloading = FALSE, ![g].itsReady = TRUE]

\* the step of initSuggest that generation g runs next ("ready" after the last)
NextLoadStep(g) ==
  IF gens[g].loaded < Len(LoadSteps(mode)) THEN LoadSteps(mode)[gens[g].loaded + 1]
  ELSE "ready"

\* ---------------------------------------------------------- Engine::reload

ReloadIdle == {"idle", "returned"}
\* positions between itsReloading = true and itsReloading = false
ReloadHolding == {"construct", "init", "check", "fail_clear", "store_msg",
                  "store_clear", "catch_clear"}
\* positions at which the call owns a new Impl under construction
ReloadBuilding == {"construct", "init", "check"}

\* if (itsReloading): the test of the flag at entry
ReloadEnter(r) ==
  /\ ~killed
  /\ rpc[r] \in ReloadIdle
  /\ impl # NoGen
  /\ FreshGen # NoGen
  /\ rpc' = [rpc EXCEPT ![r] = IF itsReloading THEN "reject" ELSE "set"]
  /\ rret' = [rret EXCEPT ![r] = <<>>]
  /\ UNCHANGED <<engineVars, rp, initVars, queryVars, cacheVars, dataVars, unitVars>>

\* itsErrorMessage = "Geo reload was already in progress"; return {false, ...}
ReloadReject(r) ==
  /\ ~killed
  /\ rpc[r] = "reject"
  /\ itsErrorMessage' = MsgInProgress
  /\ rpc' = [rpc EXCEPT ![r] = "returned"]
  /\ rret' = [rret EXCEPT ![r] = <<FALSE, MsgInProgress>>]
  /\ UNCHANGED <<mode, impl, tmpImpl, itsReloading, initFailed, gens, killed, rp,
                 initVars, queryVars, cacheVars, dataVars, unitVars>>

\* itsReloading = true
ReloadSetFlag(r) ==
  /\ ~killed
  /\ rpc[r] = "set"
  /\ itsReloading' = TRUE
  /\ rpc' = [rpc EXCEPT ![r] = "construct"]
  /\ UNCHANGED <<mode, impl, tmpImpl, itsErrorMessage, initFailed, gens, killed, rp, rret,
                 initVars, queryVars, cacheVars, dataVars, unitVars>>

\* auto p = std::make_shared<Impl>(itsConfigFile, true), which may throw
ReloadConstruct(r) ==
  /\ ~killed
  /\ rpc[r] = "construct"
  /\ \/ /\ FreshGen # NoGen
        /\ gens' = [gens EXCEPT ![FreshGen] = NewImpl(TRUE)]
        /\ rp' = [rp EXCEPT ![r] = FreshGen]
        /\ rpc' = [rpc EXCEPT ![r] = "init"]
     \/ /\ rpc' = [rpc EXCEPT ![r] = "catch_clear"]
        /\ UNCHANGED <<gens, rp>>
  /\ UNCHANGED <<mode, impl, tmpImpl, itsReloading, itsErrorMessage, initFailed, killed, rret,
                 initVars, queryVars, cacheVars, dataVars, unitVars>>

\* p->init(false): DEM and land cover, then initSuggest(false) in the thread
\* of reload (p is not shared yet), then itsReady = true. The load completes,
\* or step n + 1 fails: in the SQL phase the error is recorded in the Impl and
\* init returns, elsewhere the exception leaves init and the try block of
\* reload, which destroys p.
ReloadImplInit(r) ==
  /\ ~killed
  /\ rpc[r] = "init"
  /\ LET g == rp[r]
         steps == LoadSteps(mode)
     IN \/ /\ gens' = [LoadReady(g) EXCEPT ![g].loaded = Len(steps), ![g].itsReady = TRUE]
           /\ rpc' = [rpc EXCEPT ![r] = "check"]
        \/ \E n \in 0..(Len(steps) - 1) :
             /\ steps[n + 1] \in SqlSteps
             /\ gens[g].itsReloading
             /\ gens' = [LoadReloadError(g) EXCEPT ![g].loaded = n]
             /\ rpc' = [rpc EXCEPT ![r] = "check"]
        \/ \E n \in 0..(Len(steps) - 1) :
             /\ steps[n + 1] \notin SqlSteps \/ n = 0
             /\ gens' = [gens EXCEPT ![g] = DroppedImpl]
             /\ rpc' = [rpc EXCEPT ![r] = "catch_clear"]
  /\ UNCHANGED <<mode, impl, tmpImpl, itsReloading, itsErrorMessage, initFailed, killed,
                 rp, rret, initVars, queryVars, cacheVars, dataVars, unitVars>>

\* ReloadCheck with the store made before the test of itsReloadOK
ReloadCheck_StoreFirst(r) ==
  /\ ~killed
  /\ rpc[r] = "check"
  /\ impl' = rp[r]
  /\ IF ~gens[rp[r]].itsReloadOK
     THEN /\ itsErrorMessage' = gens[rp[r]].itsReloadError
          /\ rpc' = [rpc EXCEPT ![r] = "fail_clear"]
     ELSE /\ rpc' = [rpc EXCEPT ![r] = "store_msg"]
          /\ itsErrorMessage' = itsErrorMessage
  /\ UNCHANGED <<mode, tmpImpl, itsReloading, initFailed, gens, killed, rp, rret,
                 initVars, queryVars, cacheVars, dataVars, unitVars>>

\* if (!p->itsReloadOK) itsErrorMessage = p->itsReloadError; else impl.store(p)
ReloadCheck(r) ==
  /\ ~killed
  /\ rpc[r] = "check"
  /\ IF ~gens[rp[r]].itsReloadOK
     THEN /\ itsErrorMessage' = gens[rp[r]].itsReloadError
          /\ rpc' = [rpc EXCEPT ![r] = "fail_clear"]
          /\ impl' = impl
     ELSE /\ impl' = rp[r]
          /\ rpc' = [rpc EXCEPT ![r] = "store_msg"]
          /\ itsErrorMessage' = itsErrorMessage
  /\ UNCHANGED <<mode, tmpImpl, itsReloading, initFailed, gens, killed, rp, rret,
                 initVars, queryVars, cacheVars, dataVars, unitVars>>

\* itsReloading = false; return {false, output}: p is dropped
ReloadFailReturn(r) ==
  /\ ~killed
  /\ rpc[r] = "fail_clear"
  /\ itsReloading' = FALSE
  /\ gens' = [gens EXCEPT ![rp[r]] = DroppedImpl]
  /\ rpc' = [rpc EXCEPT ![r] = "returned"]
  /\ rp' = [rp EXCEPT ![r] = NoGen]
  /\ rret' = [rret EXCEPT ![r] = <<FALSE, gens[rp[r]].itsReloadError>>]
  /\ UNCHANGED <<mode, impl, tmpImpl, itsErrorMessage, initFailed, killed,
                 initVars, queryVars, cacheVars, dataVars, unitVars>>

\* itsLastReload = end; itsErrorMessage = ""
ReloadStoreMsg(r) ==
  /\ ~killed
  /\ rpc[r] = "store_msg"
  /\ itsErrorMessage' = MsgNone
  /\ rpc' = [rpc EXCEPT ![r] = "store_clear"]
  /\ UNCHANGED <<mode, impl, tmpImpl, itsReloading, initFailed, gens, killed, rp, rret,
                 initVars, queryVars, cacheVars, dataVars, unitVars>>

\* itsReloading = false; return {true, output}
ReloadSuccessReturn(r) ==
  /\ ~killed
  /\ rpc[r] = "store_clear"
  /\ itsReloading' = FALSE
  /\ rpc' = [rpc EXCEPT ![r] = "returned"]
  /\ rp' = [rp EXCEPT ![r] = NoGen]
  /\ rret' = [rret EXCEPT ![r] = <<TRUE, MsgNone>>]
  /\ UNCHANGED <<mode, impl, tmpImpl, itsErrorMessage, initFailed, gens, killed,
                 initVars, queryVars, cacheVars, dataVars, unitVars>>

\* ReloadCatchClear without the reset of the flag
ReloadCatchClear_KeepFlag(r) ==
  /\ ~killed
  /\ rpc[r] = "catch_clear"
  /\ rpc' = [rpc EXCEPT ![r] = "catch_msg"]
  /\ UNCHANGED <<engineVars, rp, rret, initVars, queryVars, cacheVars, dataVars, unitVars>>

\* catch (...): itsReloading = false
ReloadCatchClear(r) ==
  /\ ~killed
  /\ rpc[r] = "catch_clear"
  /\ itsReloading' = FALSE
  /\ rpc' = [rpc EXCEPT ![r] = "catch_msg"]
  /\ UNCHANGED <<mode, impl, tmpImpl, itsErrorMessage, initFailed, gens, killed, rp, rret,
                 initVars, queryVars, cacheVars, dataVars, unitVars>>

\* catch (...): itsErrorMessage = errmsg.str(); return {false, output}
ReloadCatchReturn(r) ==
  /\ ~killed
  /\ rpc[r] = "catch_msg"
  /\ itsErrorMessage' = MsgException
  /\ rpc' = [rpc EXCEPT ![r] = "returned"]
  /\ rp' = [rp EXCEPT ![r] = NoGen]
  /\ rret' = [rret EXCEPT ![r] = <<FALSE, MsgException>>]
  /\ UNCHANGED <<mode, impl, tmpImpl, itsReloading, initFailed, gens, killed,
                 initVars, queryVars, cacheVars, dataVars, unitVars>>

\* --------------------------------------------------------------- queries

SuggestKinds == {"suggest", "suggestDuplicates", "suggestLanguages"}
QueryKinds == {"nameSearch", "idSearch", "featureSearch", "nameSearchOpts",
               "countryName", "nearest"} \cup SuggestKinds

\* The calls of a public query that each begin with auto mycopy = impl.load():
\* nameSearch(name, lang) calls nameSearch(opts, name) and translateLocation,
\* featureSearch calls lonlatSearch(opts, ...), dem(), maxDemResolution(),
\* landCover() and translateLocation.
QuerySteps(kind) ==
  CASE kind = "nameSearch" -> <<"name_search", "translate">>
    [] kind = "idSearch" -> <<"id_search", "translate">>
    [] kind = "featureSearch" ->
         <<"lonlat_search", "dem", "maxDemResolution", "landCover", "translate">>
    [] kind = "nameSearchOpts" -> <<"name_search">>
    [] kind = "countryName" -> <<"translate_country">>
    [] kind = "nearest" -> <<"nearest">>
    [] OTHER -> <<"suggest">>

\* a public query is called (the engine has been handed out: impl is set)
QueryStart(q) ==
  /\ ~killed
  /\ qpc[q] = "idle"
  /\ impl # NoGen
  /\ \E k \in QueryKinds : qkind' = [qkind EXCEPT ![q] = k]
  /\ qpc' = [qpc EXCEPT ![q] = "load"]
  /\ UNCHANGED <<qstep, qgen, qgens, qres, engineVars, initVars, reloadVars, cacheVars, dataVars, unitVars>>

\* auto mycopy = impl.load()
QueryLoad(q) ==
  /\ ~killed
  /\ qpc[q] = "load"
  /\ qgen' = [qgen EXCEPT ![q] = impl]
  /\ qgens' = [qgens EXCEPT ![q] = @ \cup {impl}]
  /\ qpc' = [qpc EXCEPT ![q] = "use"]
  /\ UNCHANGED <<qkind, qstep, qres, engineVars, initVars, reloadVars, cacheVars, dataVars, unitVars>>

\* the call made on mycopy by a step that needs no suggest data: the searches,
\* translate, translate_country, dem, landCover, maxDemResolution
QueryUse(q) ==
  /\ ~killed
  /\ qpc[q] = "use"
  /\ LET steps == QuerySteps(qkind[q])
         step == steps[qstep[q]]
     IN /\ step \notin {"suggest", "nearest"}
        /\ \/ \* the step succeeds; the query goes on or returns
              IF qstep[q] < Len(steps)
              THEN /\ qstep' = [qstep EXCEPT ![q] = @ + 1]
                   /\ qpc' = [qpc EXCEPT ![q] = "load"]
                   /\ qres' = qres
              ELSE /\ qpc' = [qpc EXCEPT ![q] = "done"]
                   /\ qres' = [qres EXCEPT ![q] = "ok"]
                   /\ qstep' = qstep
           \/ \* an empty search result: nameSearch and idSearch throw "Unknown
              \* location", featureSearch goes on to make an anonymous location
              /\ step \in {"name_search", "id_search", "lonlat_search"}
              /\ IF qkind[q] = "featureSearch"
                 THEN /\ qstep' = [qstep EXCEPT ![q] = @ + 1]
                      /\ qpc' = [qpc EXCEPT ![q] = "load"]
                      /\ qres' = [qres EXCEPT ![q] = "anonymous"]
                 ELSE /\ qpc' = [qpc EXCEPT ![q] = "done"]
                      /\ qres' = [qres EXCEPT ![q] = "empty"]
                      /\ qstep' = qstep
           \/ \* the anonymous location of featureSearch needs no translation
              /\ step = "landCover"
              /\ qres[q] = "anonymous"
              /\ qpc' = [qpc EXCEPT ![q] = "done"]
              /\ UNCHANGED <<qstep, qres>>
  /\ UNCHANGED <<qkind, qgen, qgens, engineVars, initVars, reloadVars, cacheVars, dataVars, unitVars>>

\* SuggestCheck without the test of the flag
SuggestCheck_NoTest(q) ==
  /\ ~killed
  /\ qpc[q] = "use"
  /\ QuerySteps(qkind[q])[qstep[q]] = "suggest"
  /\ qpc' = [qpc EXCEPT ![q] = "tries"]
  /\ UNCHANGED <<qkind, qstep, qgen, qgens, qres, engineVars, initVars, reloadVars, cacheVars, dataVars, unitVars>>

\* Impl::suggest: if (!itsSuggestReadyFlag) throw ...
SuggestCheck(q) ==
  /\ ~killed
  /\ qpc[q] = "use"
  /\ QuerySteps(qkind[q])[qstep[q]] = "suggest"
  /\ IF ~gens[qgen[q]].itsSuggestReadyFlag
     THEN /\ qpc' = [qpc EXCEPT ![q] = "done"]
          /\ qres' = [qres EXCEPT ![q] = MsgNotReady]
     ELSE /\ qpc' = [qpc EXCEPT ![q] = "tries"]
          /\ qres' = qres
  /\ UNCHANGED <<qkind, qstep, qgen, qgens, engineVars, initVars, reloadVars, cacheVars, dataVars, unitVars>>

\* Impl::suggest: the lookups in itsTernaryTrees and itsLangTernaryTreeMap
SuggestRead(q) ==
  /\ ~killed
  /\ qpc[q] = "tries"
  /\ qpc' = [qpc EXCEPT ![q] = "done"]
  /\ qres' = [qres EXCEPT ![q] = "ok"]
  /\ UNCHANGED <<qkind, qstep, qgen, qgens, engineVars, initVars, reloadVars, cacheVars, dataVars, unitVars>>

\* NearestPoll that waits for itsReady instead of the suggest-ready flag
NearestPoll_ItsReady(q) ==
  /\ ~killed
  /\ qpc[q] = "use"
  /\ QuerySteps(qkind[q])[qstep[q]] = "nearest"
  /\ qpc' = [qpc EXCEPT ![q] = IF gens[qgen[q]].itsReady THEN "geotree" ELSE "sleep"]
  /\ UNCHANGED <<qkind, qstep, qgen, qgens, qres, engineVars, initVars, reloadVars, cacheVars, dataVars, unitVars>>

\* Engine::keywordSearch(lon, lat, ...): while (!mycopy->isSuggestReady())
NearestPoll(q) ==
  /\ ~killed
  /\ qpc[q] = "use"
  /\ QuerySteps(qkind[q])[qstep[q]] = "nearest"
  /\ qpc' = [qpc EXCEPT ![q] = IF gens[qgen[q]].itsSuggestReadyFlag THEN "geotree" ELSE "sleep"]
  /\ UNCHANGED <<qkind, qstep, qgen, qgens, qres, engineVars, initVars, reloadVars, cacheVars, dataVars, unitVars>>

\* boost::this_thread::sleep_for(100 ms) of the polling loop
NearestSleep(q) ==
  /\ ~killed
  /\ qpc[q] = "sleep"
  /\ qpc' = [qpc EXCEPT ![q] = "use"]
  /\ qres' = [qres EXCEPT ![q] = "waited"]
  /\ UNCHANGED <<qkind, qstep, qgen, qgens, engineVars, initVars, reloadVars, cacheVars, dataVars, unitVars>>

\* Engine::keywordSearch(lon, lat, ...): itsGeoTrees.find, nearest, translate
NearestRead(q) ==
  /\ ~killed
  /\ qpc[q] = "geotree"
  /\ qpc' = [qpc EXCEPT ![q] = "done"]
  /\ \E r \in {"ok", "empty"} : qres' = [qres EXCEPT ![q] = r]
  /\ UNCHANGED <<qkind, qstep, qgen, qgens, engineVars, initVars, reloadVars, cacheVars, dataVars, unitVars>>

\* the query has returned; the thread may call the next one
QueryReturn(q) ==
  /\ ~killed
  /\ qpc[q] = "done"
  /\ qpc' = [qpc EXCEPT ![q] = "idle"]
  /\ qkind' = [qkind EXCEPT ![q] = "nameSearch"]
  /\ qstep' = [qstep EXCEPT ![q] = 1]
  /\ qgen' = [qgen EXCEPT ![q] = NoGen]
  /\ qgens' = [qgens EXCEPT ![q] = {}]
  /\ qres' = [qres EXCEPT ![q] = "none"]
  /\ UNCHANGED <<engineVars, initVars, reloadVars, cacheVars, dataVars, unitVars>>

\* ------------------------------------------------------------ Engine::init

\* the first generation
FirstGen == 1

\* tmpImpl = std::make_shared<Impl>(itsConfigFile, false), which may throw
InitConstruct ==
  /\ ~killed
  /\ initPc = "start"
  /\ \/ /\ gens' = [gens EXCEPT ![FirstGen] = NewImpl(FALSE)]
        /\ tmpImpl' = FirstGen
        /\ initPc' = "made"
     \/ /\ initPc' = "fail"
        /\ UNCHANGED <<gens, tmpImpl>>
  /\ UNCHANGED <<mode, impl, itsReloading, itsErrorMessage, initFailed, killed,
                 shutPc, shutGen, reloadVars, queryVars, cacheVars, dataVars, unitVars>>

\* Impl::init(true): the initDEM and initLandCover tasks and tg1.wait()
ImplInitBegin ==
  /\ ~killed
  /\ initPc = "made"
  /\ \/ initPc' = "spawn"
     \/ initPc' = "fail"
  /\ UNCHANGED <<engineVars, shutPc, shutGen, reloadVars, queryVars, cacheVars, dataVars, unitVars>>

\* Impl::init(true): tg1.add("initSuggest", ...) starts the loader task,
\* itsReady = true, and Impl::init returns
ImplInitEnd ==
  /\ ~killed
  /\ initPc = "spawn"
  /\ gens' = [gens EXCEPT ![tmpImpl].task = "running", ![tmpImpl].itsReady = TRUE]
  /\ initPc' = "inited"
  /\ UNCHANGED <<mode, impl, tmpImpl, itsReloading, itsErrorMessage, initFailed, killed,
                 shutPc, shutGen, reloadVars, queryVars, cacheVars, dataVars, unitVars>>

\* impl.store(tmpImpl)
InitStore ==
  /\ ~killed
  /\ initPc = "inited"
  /\ impl' = tmpImpl
  /\ initPc' = "done"
  /\ UNCHANGED <<mode, tmpImpl, itsReloading, itsErrorMessage, initFailed, gens, killed,
                 shutPc, shutGen, reloadVars, queryVars, cacheVars, dataVars, unitVars>>

\* catch (...): initFailed = true; throw
InitFail ==
  /\ ~killed
  /\ initPc = "fail"
  /\ initFailed' = TRUE
  /\ initPc' = "failed"
  /\ UNCHANGED <<mode, impl, tmpImpl, itsReloading, itsErrorMessage, gens, killed,
                 shutPc, shutGen, reloadVars, queryVars, cacheVars, dataVars, unitVars>>

\* The initSuggest(true) task of generation g, one step at a time: it ends at
\* an interruption point once tg1.stop() was called; a failing step ends the
\* process (kill(getpid(), SIGKILL)).
LoaderStep(g) ==
  /\ ~killed
  /\ gens[g].task = "running"
  /\ LET step == NextLoadStep(g)
     IN IF gens[g].stopped /\ step # "ready" /\ HasInterruptionPoint(step)
        THEN /\ gens' = [gens EXCEPT ![g].task = "interrupted"]
             /\ killed' = killed
        ELSE \/ /\ step # "ready"
                /\ gens' = LoadStepDone(g)
                /\ killed' = killed
             \/ /\ step = "ready"
                /\ gens' = [LoadReady(g) EXCEPT ![g].task = "done"]
                /\ killed' = killed
             \/ /\ step # "ready"
                /\ killed' = TRUE
                /\ gens' = gens
  /\ UNCHANGED <<mode, impl, tmpImpl, itsReloading, itsErrorMessage, initFailed,
                 initVars, reloadVars, queryVars, cacheVars, dataVars, unitVars>>

\* -------------------------------------------------------- Engine::shutdown

ShutdownStart ==
  /\ ~killed
  /\ shutPc = "idle"
  /\ shutPc' = "load_impl"
  /\ UNCHANGED <<engineVars, initPc, shutGen, reloadVars, queryVars, cacheVars, dataVars, unitVars>>

\* auto mycopy = impl.load(); if (mycopy) { mycopy->shutdown(); return; }
ShutdownLoadImpl ==
  /\ ~killed
  /\ shutPc = "load_impl"
  /\ IF impl # NoGen
     THEN shutGen' = impl /\ shutPc' = "impl_shutdown"
     ELSE shutGen' = shutGen /\ shutPc' = "check_tmp"
  /\ UNCHANGED <<engineVars, initPc, reloadVars, queryVars, cacheVars, dataVars, unitVars>>

\* if (tmpImpl) { tmpImpl->shutdown(); return; }
ShutdownCheckTmp ==
  /\ ~killed
  /\ shutPc = "check_tmp"
  /\ IF tmpImpl # NoGen
     THEN shutGen' = tmpImpl /\ shutPc' = "impl_shutdown"
     ELSE shutGen' = shutGen /\ shutPc' = "check_failed"
  /\ UNCHANGED <<engineVars, initPc, reloadVars, queryVars, cacheVars, dataVars, unitVars>>

\* the polling loop without the test of initFailed
ShutdownCheckFailed_NoBreak ==
  /\ ~killed
  /\ shutPc = "check_failed"
  /\ shutPc' = "sleep"
  /\ UNCHANGED <<engineVars, initPc, shutGen, reloadVars, queryVars, cacheVars, dataVars, unitVars>>

\* if (initFailed) break; else sleep 100 ms and poll again
ShutdownCheckFailed ==
  /\ ~killed
  /\ shutPc = "check_failed"
  /\ shutPc' = IF initFailed THEN "done" ELSE "sleep"
  /\ UNCHANGED <<engineVars, initPc, shutGen, reloadVars, queryVars, cacheVars, dataVars, unitVars>>

ShutdownSleep ==
  /\ ~killed
  /\ shutPc = "sleep"
  /\ shutPc' = "load_impl"
  /\ UNCHANGED <<engineVars, initPc, shutGen, reloadVars, queryVars, cacheVars, dataVars, unitVars>>

\* Impl::shutdown: query_worker_pool->cancel(); tg1.stop()
ImplShutdownStop ==
  /\ ~killed
  /\ shutPc = "impl_shutdown"
  /\ gens' = [gens EXCEPT ![shutGen].stopped = TRUE]
  /\ shutPc' = "wait"
  /\ UNCHANGED <<mode, impl, tmpImpl, itsReloading, itsErrorMessage, initFailed, killed,
                 initPc, shutGen, reloadVars, queryVars, cacheVars, dataVars, unitVars>>

\* Impl::shutdown: tg1.wait() returns when no task of the group runs
ImplShutdownWait ==
  /\ ~killed
  /\ shutPc = "wait"
  /\ gens[shutGen].task # "running"
  /\ shutPc' = "done"
  /\ UNCHANGED <<engineVars, initPc, shutGen, reloadVars, queryVars, cacheVars, dataVars, unitVars>>

\* ------------------------------------------------ the ranker and sorting

\* LocationPriorities::priority_scale
priority_scale == 1000

\* the priority tables of the configuration (priorities.*)
PopulationPriorities == [FI |-> 2000, default |-> 100000]
AreaPriorities == [Helsinki |-> 2]
CountryPriorities == [FI |-> 5, default |-> 1]
FeaturePriorities == [FI |-> [PPLC |-> 9, default |-> 1], default |-> [PPL |-> 3]]

\* it = table.find(key); if (it == end) it = table.find("default")
Lookup(table, key) ==
  IF key \in DOMAIN table THEN <<TRUE, table[key]>>
  ELSE IF "default" \in DOMAIN table THEN <<TRUE, table["default"]>>
  ELSE <<FALSE, 0>>

\* lround(x / y) for x >= 0 and y > 0
LRound(x, y) == (2 * x + y) \div (2 * y)

populationPriority(loc) ==
  LET f == Lookup(PopulationPriorities, loc.iso2)
  IN IF f[1] THEN LRound(priority_scale * loc.population, f[2]) ELSE 0

areaPriority(loc) ==
  LET f == Lookup(AreaPriorities, loc.area)
  IN IF f[1] THEN f[2] * priority_scale ELSE 0

countryPriority(loc) ==
  LET f == Lookup(CountryPriorities, loc.iso2)
  IN IF f[1] THEN f[2] * priority_scale ELSE 0

featurePriority(loc) ==
  LET t == Lookup(FeaturePriorities, loc.iso2)
  IN IF ~t[1] THEN 0
     ELSE LET f == Lookup(t[2], loc.feature)
          IN IF f[1] THEN f[2] * priority_scale ELSE 0

getPriority(loc) ==
  populationPriority(loc) + areaPriority(loc) + countryPriority(loc) + featurePriority(loc)

\* assign_priorities that adds the score to the priority the location has
assign_priorities_Accumulate(locs) ==
  [i \in 1..Len(locs) |-> [locs[i] EXCEPT !.priority = @ + getPriority(locs[i])]]

\* Impl::assign_priorities: priority = getPriority(location) for each element
assign_priorities(locs) ==
  [i \in 1..Len(locs) |-> [locs[i] EXCEPT !.priority = getPriority(locs[i])]]

\* the strings of the model in the order of std::string::operator<
StringOrder == <<"", "FI", "Finland", "Helsinki", "Idensalmi", "Ii", "Iisalmi", "Ijo", "Suomi",
                 "helsinki", "i", "idensalmi", "ii", "iisalmi", "ijo">>
StrLess(a, b) ==
  LET ia == CHOOSE i \in 1..Len(StringOrder) : StringOrder[i] = a
      ib == CHOOSE i \in 1..Len(StringOrder) : StringOrder[i] = b
  IN ia < ib

\* Impl::to_treeword(name): the primary strength collation key of the name,
\* which folds case (and accents) and has no white space
to_treeword(name) ==
  CASE name = "Helsinki" -> "helsinki"
    [] name = "Ii" -> "ii"
    [] name = "Iisalmi" -> "iisalmi"
    [] name = "Ijo" -> "ijo"
    [] name = "Idensalmi" -> "idensalmi"
    [] OTHER -> name

\* Impl::prioritySort(a, b): priority descending, then treeword, then area
prioritySort(a, b) ==
  IF a.priority # b.priority THEN a.priority > b.priority
  ELSE IF to_treeword(a.name) # to_treeword(b.name)
       THEN StrLess(to_treeword(a.name), to_treeword(b.name))
       ELSE StrLess(a.area, b.area)

\* std::list::sort(comp): a stable sort
RECURSIVE InsertSorted(_, _, _)
InsertSorted(comp(_, _), x, sorted) ==
  IF sorted = <<>> THEN <<x>>
  ELSE IF comp(x, Head(sorted)) THEN <<x>> \o sorted
       ELSE <<Head(sorted)>> \o InsertSorted(comp, x, Tail(sorted))

RECURSIVE ListSort(_, _)
ListSort(comp(_, _), list) ==
  IF list = <<>> THEN <<>>
  ELSE InsertSorted(comp, list[Len(list)], ListSort(comp, SubSeq(list, 1, Len(list) - 1)))

\* ------------------------------------------- Impl::assign_priorities, calls

\* the largest number of calls made on one list
MaxAssign == 2

\* the locations a caller may hand over: the fields the ranker reads, and the
\* priority the location has before the call
RankLocations ==
  [geoid : {1}, name : {"Ii"}, iso2 : {"FI", "SE"}, population : {0, 1, 9, 22, 50},
   area : {"Helsinki", "Finland"}, feature : {"PPLC", "PPL", "ADM"}, priority : {0, 7}]

\* the second location of a list differs from the first in the fields the
\* ranker does not read
RankLists ==
  {<<l>> : l \in RankLocations}
    \cup {<<l, [l EXCEPT !.geoid = 2, !.name = "Ijo", !.priority = 7 - @]>> : l \in RankLocations}

\* no list was handed over
NoRanked == [locs |-> <<>>, calls |-> 0, once |-> <<>>]

\* Engine::assign_priorities(locs): Impl::assign_priorities of the generation
\* on the list of the caller (once: the list after the first call)
AssignPriorities ==
  /\ ranked # NoRanked
  /\ ranked.calls < MaxAssign
  /\ LET locs == assign_priorities(ranked.locs)
     IN ranked' = [locs |-> locs, calls |-> ranked.calls + 1,
                   once |-> IF ranked.calls = 0 THEN locs ELSE ranked.once]
  /\ UNCHANGED <<engineVars, initVars, reloadVars, queryVars, cacheVars, dataVars, sql>>

\* ------------------------------------------------------- the result cache

\* capacity of the cache (cache.max_size of the configuration)
CacheMaxSize == 1

\* the least limit name_search passes to Locus: std::max(limit, 100U)
MinFetchLimit == 100

\* the rows of the database, as to_locationlist converts them: the priority
\* is 0, the area is the country where the municipality has the name of the
\* place
RowIi == [geoid |-> 1, name |-> "Ii", iso2 |-> "FI", area |-> "Finland", feature |-> "PPL",
          population |-> 9, priority |-> 0]
RowIisalmi == [geoid |-> 2, name |-> "Iisalmi", iso2 |-> "FI", area |-> "Finland",
               feature |-> "PPL", population |-> 22, priority |-> 0]

\* what a query of the database may return: rows in the order Locus gives them
DbLists == {<<>>, <<RowIi>>, <<RowIi, RowIisalmi>>, <<RowIisalmi, RowIi>>}

\* Locus applies the result limit of the options (0 = no limit)
DbFetch(limit) == {l \in DbLists : limit = 0 \/ Len(l) <= limit}

\* the names searched for, as character sequences ("h.p" stands for a name
\* such as Helsinki.png), and the deny patterns of security.names.deny as
\* sequences of literal characters and "*" (the regex .*)
SearchNames == {<<"h">>, <<"h", ".", "p">>, <<"p">>}
DenyConfigs == {{}, {<<"*", ".", "p">>}, {<<"p">>}}

\* Locus::QueryOptions: the result limit is the part that matters here
SearchOptions == {[limit |-> 0], [limit |-> 1]}
SearchCoords == {<<25, 60>>}
SearchIds == {1}
SearchKeywords == {"mareografit"}

\* boost::regex_match(name, rule): the whole name must match the rule
RECURSIVE regex_match(_, _)
regex_match(name, rule) ==
  IF rule = <<>> THEN name = <<>>
  ELSE IF Head(rule) = "*"
       THEN regex_match(name, Tail(rule))
            \/ (name # <<>> /\ regex_match(Tail(name), rule))
       ELSE /\ name # <<>>
            /\ Head(name) = Head(rule)
            /\ regex_match(Tail(name), Tail(rule))

\* check_forbidden_name_search throws for the name
Forbidden(name, rules) == \E rule \in rules : regex_match(name, rule)

\* The cache keys. Fmi::hash_value and Fmi::hash_combine are taken to be free
\* of collisions on the inputs of the model: a key is the tuple of the hashed
\* parts, the keyword key with its seed 0x12345678.
NameKey(opts, name) == <<"name", name, opts>>
LonLatKey(opts, lonlat) == <<"lonlat", lonlat, opts>>
IdKey(opts, id) == <<"id", id, opts>>
KeywordKey(opts, keyword) == <<"keyword", keyword, opts>>

\* itsNameSearchCache.find(key): the position of the key, 0 if absent
CachePos(key) ==
  IF \E i \in 1..Len(cache) : cache[i].key = key
  THEN CHOOSE i \in 1..Len(cache) : cache[i].key = key
  ELSE 0

\* a cache hit makes the entry the most recently used one
CacheTouch(i) ==
  <<cache[i]>> \o SubSeq(cache, 1, i - 1) \o SubSeq(cache, i + 1, Len(cache))

\* itsNameSearchCache.insert(key, value): the least recently used entry is
\* evicted when the cache is full
CacheInsert(key, value) ==
  LET c == <<[key |-> key, value |-> value]>> \o cache
  IN IF Len(c) > CacheMaxSize THEN SubSeq(c, 1, CacheMaxSize) ELSE c

\* the record of a search: its key, whether the cache answered, whether the
\* database was queried, how it ended, what it returned and what the
\* database had returned
Op(kind, key, hit, db, outcome, result) ==
  [kind |-> kind, key |-> key, hit |-> hit, db |-> db, outcome |-> outcome,
   result |-> result, fetched |-> <<>>, tick |-> 1 - lastOp.tick]

\* the record of a search that fetched from the database
Fetch(op, fetched) == [op EXCEPT !.fetched = fetched]

Outcome(result) == IF result = <<>> THEN "empty" ELSE "found"

\* if (itsDatabaseDisabled) return {}
SearchDisabled(kind, key) ==
  /\ mode = "nodb"
  /\ lastOp' = Op(kind, key, FALSE, FALSE, "disabled", <<>>)
  /\ UNCHANGED <<cache, deny>>

\* auto pos = itsNameSearchCache.find(key); if (pos) return *pos
SearchHit(kind, key) ==
  /\ mode # "nodb"
  /\ CachePos(key) # 0
  /\ LET v == cache[CachePos(key)].value
     IN lastOp' = Op(kind, key, TRUE, FALSE, Outcome(v), v)
  /\ cache' = CacheTouch(CachePos(key))
  /\ UNCHANGED deny

\* name_search without the trimming
Trim_KeepAll(limit, ptrs) == ptrs

\* the trimming of name_search: resize to the result limit of the caller
Trim(limit, ptrs) ==
  IF limit > 0 /\ Len(ptrs) > limit THEN SubSeq(ptrs, 1, limit) ELSE ptrs

\* the limit name_search fetches with
RaisedLimit(limit) ==
  IF limit > 0 THEN (IF limit > MinFetchLimit THEN limit ELSE MinFetchLimit) ELSE limit

\* name_search with the deny patterns tested after the fetch and the insert
name_search_CheckLast(opts, name) ==
  LET key == NameKey(opts, name)
  IN \/ SearchDisabled("name", key)
     \/ SearchHit("name", key)
     \/ /\ mode # "nodb"
        /\ CachePos(key) = 0
        /\ \E fetched \in DbFetch(RaisedLimit(opts.limit)) :
             LET ptrs == Trim(opts.limit, ListSort(prioritySort, assign_priorities(fetched)))
             IN /\ cache' = CacheInsert(key, ptrs)
                /\ lastOp' = IF Forbidden(name, deny)
                             THEN Op("name", key, FALSE, TRUE, "forbidden", <<>>)
                             ELSE Fetch(Op("name", key, FALSE, TRUE, Outcome(ptrs), ptrs),
                                        fetched)
        /\ UNCHANGED deny

\* Impl::name_search(theOptions, theName)
name_search(opts, name) ==
  LET key == NameKey(opts, name)
  IN \/ SearchDisabled("name", key)
     \/ SearchHit("name", key)
     \/ /\ mode # "nodb"
        /\ CachePos(key) = 0
        /\ IF Forbidden(name, deny)
           THEN /\ lastOp' = Op("name", key, FALSE, FALSE, "forbidden", <<>>)
                /\ cache' = cache
           ELSE \E fetched \in DbFetch(RaisedLimit(opts.limit)) :
                  LET ptrs == Trim(opts.limit,
                                   ListSort(prioritySort, assign_priorities(fetched)))
                  IN /\ cache' = CacheInsert(key, ptrs)
                     /\ lastOp' = Fetch(Op("name", key, FALSE, TRUE, Outcome(ptrs), ptrs),
                                        fetched)
        /\ UNCHANGED deny

\* the searches that do not cache empty results: after the cache lookup the
\* database is queried and a non-empty result is inserted
SearchNoEmpty(kind, key, limit) ==
  \/ SearchDisabled(kind, key)
  \/ SearchHit(kind, key)
  \/ /\ mode # "nodb"
     /\ CachePos(key) = 0
     /\ \E ptrs \in DbFetch(limit) :
          /\ cache' = IF ptrs = <<>> THEN cache ELSE CacheInsert(key, ptrs)
          /\ lastOp' = Fetch(Op(kind, key, FALSE, TRUE, Outcome(ptrs), ptrs), ptrs)
     /\ UNCHANGED deny

\* lonlat_search that inserts its result whatever it is
lonlat_search_CacheEmpty(opts, lonlat) ==
  LET key == LonLatKey(opts, lonlat)
  IN \/ SearchDisabled("lonlat", key)
     \/ SearchHit("lonlat", key)
     \/ /\ mode # "nodb"
        /\ CachePos(key) = 0
        /\ \E ptrs \in DbFetch(opts.limit) :
             /\ cache' = CacheInsert(key, ptrs)
             /\ lastOp' = Fetch(Op("lonlat", key, FALSE, TRUE, Outcome(ptrs), ptrs), ptrs)
        /\ UNCHANGED deny

\* Impl::lonlat_search(theOptions, theLongitude, theLatitude, theRadius)
lonlat_search(opts, lonlat) == SearchNoEmpty("lonlat", LonLatKey(opts, lonlat), opts.limit)

\* Impl::id_search(theOptions, theId)
id_search(opts, id) == SearchNoEmpty("id", IdKey(opts, id), opts.limit)

\* Impl::keyword_search(theOptions, theKeyword)
keyword_search(opts, keyword) ==
  SearchNoEmpty("keyword", KeywordKey(opts, keyword), opts.limit)

UnchangedEngine == UNCHANGED <<engineVars, initVars, reloadVars, queryVars, dataVars, unitVars>>

NameSearch == \E o \in SearchOptions, n \in SearchNames : name_search(o, n) /\ UnchangedEngine
LonLatSearch == \E o \in SearchOptions, c \in SearchCoords : lonlat_search(o, c) /\ UnchangedEngine
IdSearch == \E o \in SearchOptions, i \in SearchIds : id_search(o, i) /\ UnchangedEngine
KeywordSearch ==
  \E o \in SearchOptions, k \in SearchKeywords : keyword_search(o, k) /\ UnchangedEngine

\* ------------------------------------------------ the fminames database

\* page numbers and page sizes of the suggest queries
MaxPage == 3
MaxResults == 2

\* the keywords of keywords_has_geonames and the synthetic one
DbKeywords == {"ajax_fi_all", "mareografit"}
FMINAMES_DEFAULT_KEYWORD == "all"

\* itsCountries, itsAlternateCountries, itsMunicipalities and
\* itsAlternateMunicipalities as read_countries ... read_alternate_municipalities
\* fill them
Countries == [FI |-> "Finland"]
AlternateCountries == [Finland |-> [fi |-> "Suomi"]]
Municipalities == [m \in {5} |-> "Iisalmi"]
AlternateMunicipalities == [m \in {5} |-> [sv |-> "Idensalmi"]]

\* the rows of table geonames: two places called Ii (of equal or of different
\* population) and Iisalmi; nulls are the ids whose timezone is null
GeonamesTable(pop3, nulls) ==
  << [id |-> 1, name |-> "Ii", iso2 |-> "FI", feature |-> "PPL", munip |-> 0,
      lon |-> 25, population |-> 9, timezone_null |-> 1 \in nulls],
     [id |-> 2, name |-> "Iisalmi", iso2 |-> "FI", feature |-> "PPL", munip |-> 5,
      lon |-> 27, population |-> 22, timezone_null |-> 2 \in nulls],
     [id |-> 3, name |-> "Ii", iso2 |-> "FI", feature |-> "PPL", munip |-> 0,
      lon |-> 26, population |-> pop3, timezone_null |-> 3 \in nulls] >>

\* the rows of table alternate_geonames in the order of the SQL (geonames_id,
\* language, priority, ...): a translation equal to the name and a second
\* translation of one language are among them
AlternateTable ==
  << [geonames_id |-> 1, language |-> "fi", name |-> "Ii"],
     [geonames_id |-> 1, language |-> "SV", name |-> "Ijo"],
     [geonames_id |-> 1, language |-> "sv", name |-> "Ii"],
     [geonames_id |-> 2, language |-> "sv", name |-> "Idensalmi"],
     [geonames_id |-> 3, language |-> "sv", name |-> "Ijo"] >>

\* the rows of keywords_has_geonames for a membership relation, ordered by
\* keyword and geoid
KeywordOrder == <<"ajax_fi_all", "mareografit">>
RECURSIVE SeqOfSet(_, _)
SeqOfSet(order, set) ==
  IF order = <<>> THEN <<>>
  ELSE (IF Head(order) \in set THEN <<Head(order)>> ELSE <<>>) \o SeqOfSet(Tail(order), set)

KeywordTable(member) ==
  SeqOfSet(<< <<"ajax_fi_all", 1>>, <<"ajax_fi_all", 2>>, <<"ajax_fi_all", 3>>,
              <<"mareografit", 1>>, <<"mareografit", 2>>, <<"mareografit", 3>> >>,
           {<<k, g>> \in DbKeywords \X (1..3) : k \in member[g]})

\* a database: the three tables
Database(pop3, nulls, member) ==
  [geonames |-> GeonamesTable(pop3, nulls),
   alternate |-> AlternateTable,
   keywords |-> KeywordTable(member)]

\* every database of the model
Databases ==
  {Database(pop3, nulls, member) :
     pop3 \in {9, 22}, nulls \in {{}, {2}}, member \in [1..3 -> SUBSET DbKeywords]}

\* the databases the suggest queries run on
SuggestMemberships ==
  { [g \in 1..3 |-> {"ajax_fi_all"}],
    [g \in 1..3 |-> IF g = 2 THEN {"mareografit"} ELSE {"ajax_fi_all"}],
    [g \in 1..3 |-> IF g = 1 THEN DbKeywords
                     ELSE IF g = 2 THEN {"ajax_fi_all"} ELSE {"mareografit"}] }
SuggestDatabases ==
  {Database(pop3, {}, member) : pop3 \in {9, 22}, member \in SuggestMemberships}

\* Fmi::ascii_tolower / to_language
to_language(lang) ==
  CASE lang = "SV" -> "sv"
    [] lang = "FI" -> "fi"
    [] OTHER -> lang

\* concatenation of a sequence of sequences
RECURSIVE Flatten(_)
Flatten(ss) == IF ss = <<>> THEN <<>> ELSE Head(ss) \o Flatten(Tail(ss))

\* the keyword rows that refer to geoid id
KeywordRowsOf(id) == {j \in 1..Len(fminames.keywords) : fminames.keywords[j][2] = id}

\* the result of the SQL of read_geonames: geonames INNER JOIN
\* keywords_has_geonames ON geonames.id = keywords_has_geonames.geonames_id,
\* one row for every pair of a place and a membership of it
GeonamesJoin ==
  Flatten([i \in 1..Len(fminames.geonames) |->
             [j \in 1..Cardinality(KeywordRowsOf(fminames.geonames[i].id)) |-> fminames.geonames[i]]])

\* the result of the SQL of read_alternate_geonames: alternate_geonames INNER
\* JOIN keywords_has_geonames, grouped by the columns of alternate_geonames
AlternateJoin ==
  Flatten([i \in 1..Len(fminames.alternate) |->
             IF KeywordRowsOf(fminames.alternate[i].geonames_id) # {}
             THEN <<fminames.alternate[i]>> ELSE <<>>])

\* Spine::Location(geoid, name, iso2, munip, area, ...): the area is cleared
\* if it equals the name
Location(geoid, name, iso2, munip, area, feature, lon, pop) ==
  [geoid |-> geoid, name |-> name, iso2 |-> iso2, municipality |-> munip,
   area |-> IF area = name THEN "" ELSE area, feature |-> feature,
   country |-> "", lon |-> lon, population |-> pop, priority |-> 0]

\* Impl::extract_geoname(row): the area is the municipality, else the country
extract_geoname(row) ==
  LET munarea == IF row.munip # 0 /\ row.munip \in DOMAIN Municipalities
                 THEN Municipalities[row.munip] ELSE ""
      area == IF munarea # "" THEN munarea
              ELSE IF row.iso2 \in DOMAIN Countries THEN Countries[row.iso2] ELSE ""
  IN Location(row.id, row.name, row.iso2, row.munip, area, row.feature, row.lon,
              row.population)

\* -------------------------------------------- Impl::initSuggest, SQL phase

\* the queries of the SQL phase of initSuggest in their order:
\* read_database_hash_value, read_countries, read_alternate_countries,
\* read_municipalities, read_geonames, read_alternate_geonames,
\* read_alternate_municipalities, read_keywords
SqlPhases ==
  <<"hash", "countries", "alternate_countries", "municipalities", "geonames",
    "alternate_geonames", "alternate_municipalities", "keywords">>

\* the functions that test res.empty() and throw if itsStrict: the tests of
\* read_municipalities and read_alternate_municipalities are commented out
ThrowsIfEmpty ==
  {"hash", "countries", "alternate_countries", "geonames", "alternate_geonames", "keywords"}

\* the functions that print a warning for an empty result when not strict
WarnsIfEmpty == {"countries", "alternate_countries", "geonames", "alternate_geonames"}

\* no SQL phase is followed
NoSql == [pc |-> 0, strict |-> TRUE, reloading |-> FALSE, empty |-> {}, warned |-> {},
          outcome |-> "none"]

\* the start of the SQL phase of a generation: strict of the configuration,
\* reloading of the constructor (Engine::init: false, initSuggest runs as a
\* task; Engine::reload: true, initSuggest runs in the caller), and the
\* queries whose result set is empty
SqlStart(strict, reloading, empty) ==
  [pc |-> 1, strict |-> strict, reloading |-> reloading, empty |-> empty, warned |-> {},
   outcome |-> "running"]

UnchangedBySql ==
  UNCHANGED <<engineVars, initVars, reloadVars, queryVars, cacheVars, dataVars, ranked>>

\* a read function that never throws for an empty result
SqlRead_WarnOnly ==
  /\ sql.outcome = "running"
  /\ sql.pc <= Len(SqlPhases)
  /\ sql' = [sql EXCEPT !.pc = @ + 1,
                        !.warned = IF SqlPhases[sql.pc] \in sql.empty \cap WarnsIfEmpty
                                   THEN @ \cup {SqlPhases[sql.pc]} ELSE @]
  /\ UnchangedBySql

\* the next read function of the SQL phase: if (res.empty()) throw if strict,
\* else warn or return; then the rows are read
SqlRead ==
  /\ sql.outcome = "running"
  /\ sql.pc <= Len(SqlPhases)
  /\ LET phase == SqlPhases[sql.pc]
     IN IF phase \in sql.empty /\ phase \in ThrowsIfEmpty /\ sql.strict
        THEN sql' = [sql EXCEPT !.outcome = "thrown"]
        ELSE sql' = [sql EXCEPT !.pc = @ + 1,
                                !.warned = IF phase \in sql.empty \cap WarnsIfEmpty
                                           THEN @ \cup {phase} ELSE @]
  /\ UnchangedBySql

\* catch (...) of the SQL phase: if (!itsReloading) throw, which the outer
\* catch of the task answers with kill(getpid(), SIGKILL); in a reload the
\* error is recorded (itsReloadError, itsReloadOK = false) and initSuggest
\* returns
SqlCatch ==
  /\ sql.outcome = "thrown"
  /\ sql' = [sql EXCEPT !.outcome = IF sql.reloading THEN "reload_error" ELSE "killed"]
  /\ UnchangedBySql

\* after the SQL phase: the trees are built, the priorities are assigned,
\* itsReloadOK = true and itsSuggestReadyFlag = true
SqlDone ==
  /\ sql.outcome = "running"
  /\ sql.pc = Len(SqlPhases) + 1
  /\ sql' = [sql EXCEPT !.outcome = "ready"]
  /\ UnchangedBySql

\* ------------------------------------------------- Impl::initSuggest, data

\* strict of the configuration (Impl::itsStrict, true unless configured)
itsStrict == TRUE

\* an empty std::map
EmptyMap == [x \in {} |-> 0]

\* std::map::insert(make_pair(k, v)): an existing key keeps its value
MapInsert(m, k, v) ==
  IF k \in DOMAIN m THEN m ELSE [x \in DOMAIN m \cup {k} |-> IF x = k THEN v ELSE m[x]]

\* m[k] = v
MapPut(m, k, v) == [x \in DOMAIN m \cup {k} |-> IF x = k THEN v ELSE m[x]]

\* the engine and the cache are not part of the load of the data
UnchangedThreads ==
  UNCHANGED <<engineVars, initVars, reloadVars, queryVars, cacheVars, unitVars>>

\* Impl::read_geonames: every row of the join whose timezone is not null is
\* appended to the store
RECURSIVE ReadGeonamesRows(_)
ReadGeonamesRows(rows) ==
  IF rows = <<>> THEN <<>>
  ELSE (IF Head(rows).timezone_null THEN <<>> ELSE <<extract_geoname(Head(rows))>>)
       \o ReadGeonamesRows(Tail(rows))

read_geonames ==
  /\ loadPc = "read_geonames"
  /\ IF GeonamesJoin = <<>> /\ itsStrict
     THEN /\ loadPc' = "failed"
          /\ itsLocations' = itsLocations
     ELSE /\ loadPc' = "build_geoid_map"
          /\ itsLocations' = itsLocations \o ReadGeonamesRows(GeonamesJoin)
  /\ UNCHANGED <<fminames, itsGeoIdMap, itsAlternateNames, itsKeywords, itsGeoTrees,
                 itsTernaryTrees, itsLangTernaryTreeMap, lastQuery>>
  /\ UnchangedThreads

\* Impl::build_geoid_map: emplace keeps the first record of a geoid
build_geoid_map ==
  /\ loadPc = "build_geoid_map"
  /\ loadPc' = "read_alternate_geonames"
  /\ itsGeoIdMap' =
       [g \in {itsLocations[i].geoid : i \in 1..Len(itsLocations)} |->
          CHOOSE i \in 1..Len(itsLocations) :
            /\ itsLocations[i].geoid = g
            /\ \A j \in 1..(i - 1) : itsLocations[j].geoid # g]
  /\ UNCHANGED <<fminames, itsLocations, itsAlternateNames, itsKeywords, itsGeoTrees,
                 itsTernaryTrees, itsLangTernaryTreeMap, lastQuery>>
  /\ UnchangedThreads

\* the loop of Impl::read_alternate_geonames over the rows: names is
\* itsAlternateNames so far, last is <<last_handled_geoid, last_lang>>
RECURSIVE ReadAlternateRows(_, _, _)
ReadAlternateRows(rows, names, last) ==
  IF rows = <<>> THEN names
  ELSE LET geoid == Head(rows).geonames_id
           name == Head(rows).name
           lang == to_language(Head(rows).language)
       IN IF <<geoid, lang>> = last
          THEN ReadAlternateRows(Tail(rows), names, last)
          ELSE IF geoid \in DOMAIN itsGeoIdMap
                  /\ itsLocations[itsGeoIdMap[geoid]].name = name
          THEN ReadAlternateRows(Tail(rows), names, <<geoid, lang>>)
          ELSE LET translations == IF geoid \in DOMAIN names THEN names[geoid]
                                   ELSE EmptyMap
               IN ReadAlternateRows(Tail(rows),
                                    MapPut(names, geoid, MapInsert(translations, lang, name)),
                                    <<geoid, lang>>)

read_alternate_geonames ==
  /\ loadPc = "read_alternate_geonames"
  /\ IF AlternateJoin = <<>> /\ itsStrict
     THEN /\ loadPc' = "failed"
          /\ itsAlternateNames' = itsAlternateNames
     ELSE /\ loadPc' = "read_keywords"
          /\ itsAlternateNames' = ReadAlternateRows(AlternateJoin, itsAlternateNames, <<0, "">>)
  /\ UNCHANGED <<fminames, itsLocations, itsGeoIdMap, itsKeywords, itsGeoTrees,
                 itsTernaryTrees, itsLangTernaryTreeMap, lastQuery>>
  /\ UnchangedThreads

\* the loop of Impl::read_keywords: a row whose geoid is in itsGeoIdMap appends
\* the location to the list of the keyword
RECURSIVE ReadKeywordRows(_, _)
ReadKeywordRows(rows, keywords) ==
  IF rows = <<>> THEN keywords
  ELSE LET key == Head(rows)[1]
           geoid == Head(rows)[2]
           members == IF key \in DOMAIN keywords THEN keywords[key] ELSE <<>>
       IN IF geoid \in DOMAIN itsGeoIdMap
          THEN ReadKeywordRows(Tail(rows),
                               MapPut(keywords, key, Append(members, itsGeoIdMap[geoid])))
          ELSE ReadKeywordRows(Tail(rows), keywords)

read_keywords ==
  /\ loadPc = "read_keywords"
  /\ IF fminames.keywords = <<>> /\ itsStrict
     THEN /\ loadPc' = "failed"
          /\ itsKeywords' = itsKeywords
     ELSE /\ loadPc' = "build_geotrees"
          /\ itsKeywords' = ReadKeywordRows(fminames.keywords, itsKeywords)
  /\ UNCHANGED <<fminames, itsLocations, itsGeoIdMap, itsAlternateNames, itsGeoTrees,
                 itsTernaryTrees, itsLangTernaryTreeMap, lastQuery>>
  /\ UnchangedThreads

\* Impl::build_geotrees: a near tree per keyword holding its members, and the
\* tree of keyword all holding every record of the store, in insertion order
build_geotrees ==
  /\ loadPc = "build_geotrees"
  /\ loadPc' = "build_ternarytrees"
  /\ LET trees == [k \in DOMAIN itsKeywords |->
                     (IF k \in DOMAIN itsGeoTrees THEN itsGeoTrees[k] ELSE <<>>)
                     \o itsKeywords[k]]
         global == IF FMINAMES_DEFAULT_KEYWORD \in DOMAIN trees
                   THEN trees[FMINAMES_DEFAULT_KEYWORD] ELSE <<>>
     IN itsGeoTrees' = MapPut(trees, FMINAMES_DEFAULT_KEYWORD,
                              global \o [i \in 1..Len(itsLocations) |-> i])
  /\ UNCHANGED <<fminames, itsLocations, itsGeoIdMap, itsAlternateNames, itsKeywords,
                 itsTernaryTrees, itsLangTernaryTreeMap, lastQuery>>
  /\ UnchangedThreads

\* Impl::preprocess_name: remove_underscores is off, and no name of the
\* database has an underscore
preprocess_name(name) == name

\* the words after the first one of a name of several words (add_treewords):
\* the names of the database are single words
WordSuffixes(name) == {}

\* Impl::to_treewords(name, area): the keys of a name in a trie, the collated
\* form of "name,area" for the name and for each of its word suffixes; the
\* area is the specifier "area,geoid" of the record
to_treewords(name, specifier) ==
  {<<to_treeword(n), specifier[1], specifier[2]>> : n \in {name} \cup WordSuffixes(name)}

\* std::string specifier = ptr->area + "," + Fmi::to_string(ptr->geoid)
Specifier(i) == <<itsLocations[i].area, itsLocations[i].geoid>>

\* TernaryTree::insert(key, ptr) for each key: a key that is in the tree keeps
\* its location
TreeInsert(tree, words, loc) ==
  tree \cup {[key |-> w, loc |-> loc] : w \in {x \in words : \A e \in tree : e.key # x}}

\* the loop that inserts the names of the locations locs into a trie
RECURSIVE InsertNames(_, _)
InsertNames(tree, locs) ==
  IF locs = <<>> THEN tree
  ELSE InsertNames(TreeInsert(tree,
                              to_treewords(preprocess_name(itsLocations[Head(locs)].name),
                                           Specifier(Head(locs))),
                              Head(locs)),
                   Tail(locs))

\* build_ternarytrees without the loop over the keywords
build_ternarytrees_OnlyAll ==
  /\ loadPc = "build_ternarytrees"
  /\ loadPc' = "build_lang_ternarytrees"
  /\ itsTernaryTrees' =
       MapPut(EmptyMap, FMINAMES_DEFAULT_KEYWORD,
              InsertNames({}, [i \in 1..Len(itsLocations) |-> i]))
  /\ UNCHANGED <<fminames, itsLocations, itsGeoIdMap, itsAlternateNames, itsKeywords,
                 itsGeoTrees, itsLangTernaryTreeMap, lastQuery>>
  /\ UnchangedThreads

\* Impl::build_ternarytrees: a trie per keyword over the names of its
\* members, and the trie of keyword all over every record of the store
build_ternarytrees ==
  /\ loadPc = "build_ternarytrees"
  /\ loadPc' = "build_lang_ternarytrees"
  /\ LET trees == [k \in DOMAIN itsKeywords |->
                     InsertNames(IF k \in DOMAIN itsTernaryTrees THEN itsTernaryTrees[k]
                                 ELSE {},
                                 itsKeywords[k])]
         global == IF FMINAMES_DEFAULT_KEYWORD \in DOMAIN trees
                   THEN trees[FMINAMES_DEFAULT_KEYWORD] ELSE {}
     IN itsTernaryTrees' =
          MapPut(trees, FMINAMES_DEFAULT_KEYWORD,
                 InsertNames(global, [i \in 1..Len(itsLocations) |-> i]))
  /\ UNCHANGED <<fminames, itsLocations, itsGeoIdMap, itsAlternateNames, itsKeywords,
                 itsGeoTrees, itsLangTernaryTreeMap, lastQuery>>
  /\ UnchangedThreads

\* the locations whose translations the trie of a keyword gets:
\* build_lang_ternarytrees_all takes the geoids of itsAlternateNames that
\* itsGeoIdMap knows, build_lang_ternarytrees_one_keyword the members of the
\* keyword that have alternate names
LangMembers(keyword) ==
  (IF keyword = "all"
   THEN {itsGeoIdMap[g] : g \in DOMAIN itsAlternateNames \cap DOMAIN itsGeoIdMap}
   ELSE {})
  \cup
  (IF keyword \in DOMAIN itsKeywords
   THEN {itsKeywords[keyword][j] : j \in
           {n \in 1..Len(itsKeywords[keyword]) :
              itsLocations[itsKeywords[keyword][n]].geoid \in DOMAIN itsAlternateNames}}
   ELSE {})

\* the trie of a language and a keyword: the translations to the language of
\* the names of the members, under the specifier of the record
LangTree(lang, keyword) ==
  UNION {
    IF lang \in DOMAIN itsAlternateNames[itsLocations[i].geoid]
    THEN {[key |-> w, loc |-> i] :
            w \in to_treewords(preprocess_name(itsAlternateNames[itsLocations[i].geoid][lang]),
                               Specifier(i))}
    ELSE {} : i \in LangMembers(keyword)}

\* Impl::build_lang_ternarytrees: a trie exists for the pairs of a language
\* and a keyword that got a translation
build_lang_ternarytrees ==
  /\ loadPc = "build_lang_ternarytrees"
  /\ loadPc' = "assign_priorities"
  /\ LET langs == UNION {DOMAIN itsAlternateNames[g] : g \in DOMAIN itsAlternateNames}
         kws == DOMAIN itsKeywords \cup {"all"}
         used == {l \in langs : \E k \in kws : LangTree(l, k) # {}}
     IN itsLangTernaryTreeMap' =
          [l \in used |-> [k \in {x \in kws : LangTree(l, x) # {}} |-> LangTree(l, k)]]
  /\ UNCHANGED <<fminames, itsLocations, itsGeoIdMap, itsAlternateNames, itsKeywords,
                 itsGeoTrees, itsTernaryTrees, lastQuery>>
  /\ UnchangedThreads

\* the end of Impl::initSuggest: assign_priorities(itsLocations), then
\* itsReloadOK = true and itsSuggestReadyFlag = true
initSuggestReady ==
  /\ loadPc = "assign_priorities"
  /\ loadPc' = "ready"
  /\ itsLocations' = assign_priorities(itsLocations)
  /\ UNCHANGED <<fminames, itsGeoIdMap, itsAlternateNames, itsKeywords, itsGeoTrees,
                 itsTernaryTrees, itsLangTernaryTreeMap, lastQuery>>
  /\ UnchangedThreads

\* the steps of the loader of the data
LoadStep ==
  \/ read_geonames
  \/ build_geoid_map
  \/ read_alternate_geonames
  \/ read_keywords
  \/ build_geotrees
  \/ build_ternarytrees
  \/ build_lang_ternarytrees
  \/ initSuggestReady

\* --------------------------------------------------------------- suggest

\* no query yet
NoQuery == [kind |-> "none", outcome |-> "none", result |-> <<>>]

\* priorities.match of the configuration (Impl::itsNameMatchPriority)
itsNameMatchPriority == 50

\* the letters of the collated words of the model
Letters ==
  [i |-> <<"i">>, ii |-> <<"i", "i">>, ijo |-> <<"i", "j", "o">>,
   iisalmi |-> <<"i", "i", "s", "a", "l", "m", "i">>,
   idensalmi |-> <<"i", "d", "e", "n", "s", "a", "l", "m", "i">>]

IsPrefix(p, w) == Len(p) <= Len(w) /\ SubSeq(w, 1, Len(p)) = p

\* an element of a location list: a shared pointer to record store of
\* itsLocations (store = 0: to a record of its own) and the record it sees
Ptr(i) == [store |-> i, loc |-> itsLocations[i]]
NewLocation(loc) == [store |-> 0, loc |-> loc]

\* the order of the keys of a trie
KeyLess(a, b) ==
  IF a[1] # b[1] THEN StrLess(a[1], b[1])
  ELSE IF a[2] # b[2] THEN StrLess(a[2], b[2])
  ELSE a[3] < b[3]

\* the entries of a trie in the order of their keys
RECURSIVE TreeList(_)
TreeList(tree) ==
  IF tree = {} THEN <<>>
  ELSE LET first == CHOOSE e \in tree : \A f \in tree : f = e \/ KeyLess(e.key, f.key)
       IN <<first>> \o TreeList(tree \ {first})

\* TernaryTree::findprefix(name): the locations of the keys that begin with
\* name (a pattern of the model has no comma: it is a prefix of the name)
findprefix(tree, name) ==
  LET found == TreeList({e \in tree : IsPrefix(Letters[name], Letters[e.key[1]])})
  IN [j \in 1..Len(found) |-> Ptr(found[j].loc)]

\* the predicates of the callers: filter_features removes the locations for
\* which the predicate is true
Predicates == {"accept_all", "is_small"}
Predicate(pred, ptr) ==
  IF pred = "accept_all" THEN FALSE ELSE ptr.loc.population < 10

RECURSIVE remove_if(_, _)
remove_if(locs, pred) ==
  IF locs = <<>> THEN <<>>
  ELSE (IF Predicate(pred, Head(locs)) THEN <<>> ELSE <<Head(locs)>>)
       \o remove_if(Tail(locs), pred)

filter_features(locs, predicate) == remove_if(locs, predicate)

\* Impl::translate_name
translate_name(loc, lang) ==
  IF loc.geoid \notin DOMAIN itsAlternateNames THEN loc
  ELSE LET translations == itsAlternateNames[loc.geoid]
           lg == to_language(lang)
       IN IF lg \notin DOMAIN translations THEN loc
          ELSE [loc EXCEPT !.name = translations[lg]]

\* Impl::translate_area: the municipality translation, else that of the
\* country the area names (no area of the model has a state designator);
\* an area equal to the name is cleared
translate_area(loc, lang) ==
  LET lg == to_language(lang)
      a1 == IF loc.municipality \in DOMAIN AlternateMunicipalities
               /\ lg \in DOMAIN AlternateMunicipalities[loc.municipality]
            THEN AlternateMunicipalities[loc.municipality][lg]
            ELSE loc.area
      clear(a) == IF loc.name = a THEN "" ELSE a
  IN IF a1 # "" /\ a1 \in DOMAIN AlternateCountries
     THEN IF lg \notin DOMAIN AlternateCountries[a1]
          THEN [loc EXCEPT !.area = a1]
          ELSE [loc EXCEPT !.area = clear(AlternateCountries[a1][lg])]
     ELSE [loc EXCEPT !.area = clear(a1)]

\* Impl::translate_country
translate_country(iso2, lang) ==
  LET lg == to_language(lang)
  IN IF iso2 \notin DOMAIN Countries THEN ""
     ELSE IF Countries[iso2] \notin DOMAIN AlternateCountries THEN Countries[iso2]
     ELSE IF lg \notin DOMAIN AlternateCountries[Countries[iso2]] THEN Countries[iso2]
     ELSE AlternateCountries[Countries[iso2]][lg]

\* Impl::translate(loc, lang): a new record with name, area and country of
\* the language
translate(ptr, lang) ==
  LET l1 == translate_name(ptr.loc, lang)
      l2 == translate_area(l1, lang)
  IN NewLocation([l2 EXCEPT !.country = translate_country(l2.iso2, lang)])

\* Impl::translate(locs, lang)
translate_list(locs, lang) == [j \in 1..Len(locs) |-> translate(locs[j], lang)]

\* basicSort, closeEnough and reallyClose
\* basicSort with the lower priority first among equal names, countries
\* and areas
basicSort_LowPriorityFirst(a, b) ==
  IF a.loc.name # b.loc.name THEN StrLess(a.loc.name, b.loc.name)
  ELSE IF a.loc.iso2 # b.loc.iso2 THEN StrLess(a.loc.iso2, b.loc.iso2)
  ELSE IF a.loc.area # b.loc.area THEN StrLess(a.loc.area, b.loc.area)
  ELSE a.loc.priority < b.loc.priority

basicSort(a, b) ==
  IF a.loc.name # b.loc.name THEN StrLess(a.loc.name, b.loc.name)
  ELSE IF a.loc.iso2 # b.loc.iso2 THEN StrLess(a.loc.iso2, b.loc.iso2)
  ELSE IF a.loc.area # b.loc.area THEN StrLess(a.loc.area, b.loc.area)
  ELSE a.loc.priority > b.loc.priority

closeEnough(a, b) ==
  a.loc.name = b.loc.name /\ a.loc.iso2 = b.loc.iso2 /\ a.loc.area = b.loc.area

reallyClose(a, b) == a.loc.geoid = b.loc.geoid

\* prioritySort on the elements of a list
prioritySortPtr(a, b) == prioritySort(a.loc, b.loc)

\* std::list::unique(pred): of each run of consecutive elements that pred
\* relates to their predecessor the first is kept
RECURSIVE unique(_, _)
unique(pred(_, _), list) ==
  IF Len(list) < 2 THEN list
  ELSE LET rest == unique(pred, SubSeq(list, 1, Len(list) - 1))
       IN IF pred(rest[Len(rest)], list[Len(list)]) THEN rest
          ELSE Append(rest, list[Len(list)])

\* the arguments of the queries
Patterns == {"i", "Ii", "Ijo"}
Languages == {"fi", "sv"}
LanguageLists == {<<"fi", "sv">>, <<"sv", "fi">>, <<"sv">>}
KeywordArgs == {"all", "ajax_fi_all", "ajax_fi_all,mareografit", "all,nokeyword", "nokeyword"}

\* boost::algorithm::split(keywords, keyword, is_any_of(","))
split(keyword) ==
  CASE keyword = "ajax_fi_all,mareografit" -> <<"ajax_fi_all", "mareografit">>
    [] keyword = "all,nokeyword" -> <<"all", "nokeyword">>
    [] OTHER -> <<keyword>>

Min(a, b) == IF a < b THEN a ELSE b

\* keep_wanted_page(locs, maxresults, page): std::advance(pos2, first) past
\* the end of the list is undefined: the list of libstdc++ is circular, the
\* iterator passes the end node and goes on from the first element; a
\* checking build aborts (page * maxresults of the model is far from the
\* width of unsigned int)
keep_wanted_page(locs, maxresults, page) ==
  IF maxresults = 0 THEN {[outcome |-> "ok", result |-> locs]}
  ELSE LET first == page * maxresults
           Page(k) == LET rest == SubSeq(locs, k + 1, Len(locs))
                      IN SubSeq(rest, 1, Min(Len(rest), maxresults))
       IN IF first <= Len(locs)
          THEN {[outcome |-> "ok", result |-> Page(first)]}
          ELSE {[outcome |-> "undefined", result |-> Page(first % (Len(locs) + 1))],
                [outcome |-> "aborted", result |-> <<>>]}

\* add_exact_match_bonus with the bonus added to the record the list shares
\* with the store
add_exact_match_bonus_InPlace(locs, name, bonus) ==
  [j \in 1..Len(locs) |->
     IF to_treeword(locs[j].loc.name) = name
     THEN [locs[j] EXCEPT !.loc.priority = @ + bonus]
     ELSE locs[j]]

\* Impl::add_exact_match_bonus: a location whose collated name is the
\* collated pattern is replaced by a copy with the bonus added
add_exact_match_bonus(locs, name, bonus) ==
  [j \in 1..Len(locs) |->
     IF to_treeword(locs[j].loc.name) = name
     THEN NewLocation([locs[j].loc EXCEPT !.priority = @ + bonus])
     ELSE locs[j]]

\* the matches of the trie of the language and the keyword, if there is one
LangMatches(lang, keyword, name) ==
  LET lg == to_language(lang)
  IN IF lg \in DOMAIN itsLangTernaryTreeMap /\ keyword \in DOMAIN itsLangTernaryTreeMap[lg]
     THEN findprefix(itsLangTernaryTreeMap[lg][keyword], name)
     ELSE <<>>

\* Impl::suggest_one_keyword (the pattern is valid UTF-8)
suggest_one_keyword(pattern, lang, keyword, tree) ==
  LET name == to_treeword(pattern)
      result == findprefix(tree, name) \o LangMatches(lang, keyword, name)
  IN add_exact_match_bonus(result, name, itsNameMatchPriority * priority_scale)

\* Impl::suggest up to the filter: the matches of every keyword of the list
SuggestMatches(pattern, lang, keywords) ==
  Flatten([k \in 1..Len(keywords) |->
             suggest_one_keyword(pattern, lang, keywords[k], itsTernaryTrees[keywords[k]])])

\* ret.sort(basicSort); ret.unique(...); ret.sort(prioritySort)
SortUnique(locs, duplicates) ==
  LET sorted == ListSort(basicSort, locs)
  IN ListSort(prioritySortPtr,
              IF duplicates THEN unique(reallyClose, sorted) ELSE unique(closeEnough, sorted))

\* Impl::suggest before keep_wanted_page: filtered, translated, without
\* duplicates, in the order of the priorities
SuggestList(pattern, predicate, lang, keywords, duplicates) ==
  SortUnique(translate_list(filter_features(SuggestMatches(pattern, lang, keywords),
                                            predicate),
                            lang),
             duplicates)

\* the store after the elements of a list were written: an element that
\* shares its record with the store writes the store
StoreAfter(locs) ==
  [i \in 1..Len(itsLocations) |->
     IF \E j \in 1..Len(locs) : locs[j].store = i
     THEN locs[CHOOSE j \in 1..Len(locs) : locs[j].store = i].loc
     ELSE itsLocations[i]]

UnchangedTables ==
  UNCHANGED <<fminames, loadPc, itsGeoIdMap, itsAlternateNames, itsKeywords, itsGeoTrees,
              itsTernaryTrees, itsLangTernaryTreeMap>>

\* suggest that skips the keywords without a trie
suggest_SkipUnknown(pattern, predicate, lang, keyword, page, maxresults, duplicates) ==
  LET keywords == SelectSeq(split(keyword), LAMBDA k : k \in DOMAIN itsTernaryTrees)
      q == [kind |-> "suggest", pattern |-> pattern, predicate |-> predicate,
            lang |-> lang, keyword |-> keyword, page |-> page,
            maxresults |-> maxresults, duplicates |-> duplicates]
  IN /\ \E out \in keep_wanted_page(
                     SuggestList(pattern, predicate, lang, keywords, duplicates),
                     maxresults, page) :
          lastQuery' = q @@ out
     /\ itsLocations' = StoreAfter(SuggestMatches(pattern, lang, keywords))

\* Impl::suggest(pattern, predicate, lang, keyword, page, maxresults,
\* duplicates) on a generation whose suggest-ready flag is set
suggest(pattern, predicate, lang, keyword, page, maxresults, duplicates) ==
  LET keywords == split(keyword)
      q == [kind |-> "suggest", pattern |-> pattern, predicate |-> predicate,
            lang |-> lang, keyword |-> keyword, page |-> page,
            maxresults |-> maxresults, duplicates |-> duplicates]
  IN IF \E k \in 1..Len(keywords) : keywords[k] \notin DOMAIN itsTernaryTrees
     THEN /\ lastQuery' = q @@ [outcome |-> "ok", result |-> <<>>]
          /\ itsLocations' = itsLocations
     ELSE /\ \E out \in keep_wanted_page(
                          SuggestList(pattern, predicate, lang, keywords, duplicates),
                          maxresults, page) :
               lastQuery' = q @@ out
          /\ itsLocations' = StoreAfter(SuggestMatches(pattern, lang, keywords))

\* the matches of the tries of every requested language
RECURSIVE LangsMatches(_, _, _)
LangsMatches(languages, keyword, name) ==
  IF languages = <<>> THEN <<>>
  ELSE LangMatches(Head(languages), keyword, name)
       \o LangsMatches(Tail(languages), keyword, name)

\* suggest for several languages that cuts only the list of the first
\* language to the page
suggest_languages_PageFirstOnly(pattern, predicate, languages, keyword, page, maxresults, duplicates) ==
  LET q == [kind |-> "suggest_languages", pattern |-> pattern, predicate |-> predicate,
            languages |-> languages, keyword |-> keyword, page |-> page,
            maxresults |-> maxresults, duplicates |-> duplicates]
      name == to_treeword(pattern)
  IN /\ itsLocations' = itsLocations
     /\ IF Len(languages) < 2
        THEN lastQuery' = q @@ [outcome |-> "error", result |-> <<>>]
        ELSE IF keyword \notin DOMAIN itsTernaryTrees
        THEN lastQuery' = q @@ [outcome |-> "ok", result |-> <<>>]
        ELSE LET candidates == SortUnique(findprefix(itsTernaryTrees[keyword], name)
                                          \o LangsMatches(languages, keyword, name),
                                          duplicates)
             IN \E out \in keep_wanted_page(candidates, maxresults, page) :
                  lastQuery' =
                    q @@ [outcome |-> out.outcome,
                          result |-> IF out.outcome = "aborted" THEN <<>>
                                     ELSE [l \in 1..Len(languages) |->
                                             translate_list(IF l = 1 THEN out.result
                                                            ELSE candidates,
                                                            languages[l])]]

\* Impl::suggest(pattern, predicate, languages, keyword, page, maxresults,
\* duplicates): the candidates are sorted and cut to the page before they are
\* translated to each language; the predicate is applied to the (empty) list
\* of results
suggest_languages(pattern, predicate, languages, keyword, page, maxresults, duplicates) ==
  LET q == [kind |-> "suggest_languages", pattern |-> pattern, predicate |-> predicate,
            languages |-> languages, keyword |-> keyword, page |-> page,
            maxresults |-> maxresults, duplicates |-> duplicates]
      name == to_treeword(pattern)
  IN /\ itsLocations' = itsLocations
     /\ IF Len(languages) < 2
        THEN lastQuery' = q @@ [outcome |-> "error", result |-> <<>>]
        ELSE IF keyword \notin DOMAIN itsTernaryTrees
        THEN lastQuery' = q @@ [outcome |-> "ok", result |-> <<>>]
        ELSE LET candidates == findprefix(itsTernaryTrees[keyword], name)
                               \o LangsMatches(languages, keyword, name)
             IN \E out \in keep_wanted_page(SortUnique(candidates, duplicates),
                                            maxresults, page) :
                  lastQuery' =
                    q @@ [outcome |-> out.outcome,
                          result |-> IF out.outcome = "aborted" THEN <<>>
                                     ELSE [l \in 1..Len(languages) |->
                                             translate_list(out.result, languages[l])]]

\* the coordinates and radii of the nearest point queries (a negative radius
\* is no limit)
Longitudes == {25, 28}
Radii == {-1, 1}
NearestKeywords == {"all", "ajax_fi_all", "nokeyword"}

\* LocationPtrDistance on the longitudes of the model
Distance(lon, i) ==
  IF itsLocations[i].lon < lon THEN lon - itsLocations[i].lon ELSE itsLocations[i].lon - lon

\* NearTree::nearest(dummy, radius): the closest location of the tree within
\* the radius, the first inserted one of several
nearest(tree, lon, radius) ==
  LET within == {j \in 1..Len(tree) : radius < 0 \/ Distance(lon, tree[j]) <= radius}
  IN IF within = {} THEN <<>>
     ELSE <<tree[CHOOSE j \in within :
                   \A k \in within :
                     \/ Distance(lon, tree[j]) < Distance(lon, tree[k])
                     \/ Distance(lon, tree[j]) = Distance(lon, tree[k]) /\ j <= k]>>

\* Engine::keywordSearch(lon, lat, radius, lang, keyword) once the suggest
\* data is ready: a translated copy of the nearest location of the keyword
keywordSearchNearest(lon, radius, lang, keyword) ==
  LET q == [kind |-> "nearest", lon |-> lon, radius |-> radius, lang |-> lang,
            keyword |-> keyword, outcome |-> "ok"]
  IN /\ itsLocations' = itsLocations
     /\ IF keyword \notin DOMAIN itsGeoTrees
        THEN lastQuery' = q @@ [result |-> <<>>]
        ELSE LET ptr == nearest(itsGeoTrees[keyword], lon, radius)
             IN IF ptr = <<>> THEN lastQuery' = q @@ [result |-> <<>>]
                ELSE lastQuery' =
                       q @@ [result |-> <<translate(NewLocation(itsLocations[ptr[1]]), lang)>>]

\* the queries are made one after the other on the loaded generation
QueryReady == loadPc = "ready" /\ lastQuery = NoQuery

Suggest ==
  /\ QueryReady
  /\ \E pattern \in Patterns, predicate \in Predicates, lang \in Languages,
        keyword \in KeywordArgs, page \in 0..MaxPage, maxresults \in 0..MaxResults,
        duplicates \in BOOLEAN :
       suggest(pattern, predicate, lang, keyword, page, maxresults, duplicates)
  /\ UnchangedTables
  /\ UnchangedThreads

SuggestLanguages ==
  /\ QueryReady
  /\ \E pattern \in Patterns, predicate \in Predicates, languages \in LanguageLists,
        keyword \in KeywordArgs, page \in 0..MaxPage, maxresults \in 0..MaxResults,
        duplicates \in BOOLEAN :
       suggest_languages(pattern, predicate, languages, keyword, page, maxresults,
                         duplicates)
  /\ UnchangedTables
  /\ UnchangedThreads

NearestSearch ==
  /\ QueryReady
  /\ \E lon \in Longitudes, radius \in Radii, lang \in Languages,
        keyword \in NearestKeywords :
       keywordSearchNearest(lon, radius, lang, keyword)
  /\ UnchangedTables
  /\ UnchangedThreads

\* the caller has taken the result
SuggestReturn ==
  /\ loadPc = "ready"
  /\ lastQuery # NoQuery
  /\ lastQuery' = NoQuery
  /\ UNCHANGED itsLocations
  /\ UnchangedTables
  /\ UnchangedThreads

\* ------------------------------------------- the callers of the searches

\* the records of a plain list as elements of a location list, and back
Ptrs(locs) == [i \in 1..Len(locs) |-> NewLocation(locs[i])]
Locs(ptrs) == [i \in 1..Len(ptrs) |-> ptrs[i].loc]

\* Impl::sort(theLocations): assign_priorities, sort(basicSort),
\* unique(closeEnough), sort by priority
sort(theLocations) == Locs(SortUnique(Ptrs(assign_priorities(theLocations)), FALSE))

\* Impl::assign_priorities writes the priority through the pointers of the
\* list (const_cast): the records of entry i of the cache, which the list of
\* the caller shares with it, are written
CacheWritten(i) == [cache EXCEPT ![i].value = assign_priorities(@)]

\* a caller hands the list it got from a search, which entry i of the cache
\* holds too, to Engine::sort
EngineSort ==
  /\ \E i \in 1..Len(cache) :
       /\ cache[i].value # <<>>
       /\ cache' = CacheWritten(i)
       /\ ranked' = [locs |-> sort(cache[i].value), calls |-> 1, once |-> cache[i].value]
  /\ UNCHANGED <<deny, lastOp, sql>>
  /\ UNCHANGED <<engineVars, initVars, reloadVars, queryVars, dataVars>>

\* a caller hands the list it got from a search to Engine::assign_priorities
EngineAssignPriorities ==
  /\ \E i \in 1..Len(cache) :
       /\ cache[i].value # <<>>
       /\ cache' = CacheWritten(i)
       /\ ranked' = [locs |-> assign_priorities(cache[i].value), calls |-> 1,
                     once |-> cache[i].value]
  /\ UNCHANGED <<deny, lastOp, sql>>
  /\ UNCHANGED <<engineVars, initVars, reloadVars, queryVars, dataVars>>

\* ------------------------------------------------------- specifications

NoOp == [kind |-> "none", key |-> <<>>, hit |-> FALSE, db |-> FALSE, outcome |-> "none",
         result |-> <<>>, fetched |-> <<>>, tick |-> 0]

CacheIdle ==
  /\ cache = <<>>
  /\ deny = {}
  /\ lastOp = NoOp

\* no list is being ranked and no SQL phase is followed
UnitIdle ==
  /\ ranked = NoRanked
  /\ sql = NoSql

\* the tables of an Impl before initSuggest
DataEmpty ==
  /\ loadPc = "read_geonames"
  /\ itsLocations = <<>>
  /\ itsGeoIdMap = EmptyMap
  /\ itsAlternateNames = EmptyMap
  /\ itsKeywords = EmptyMap
  /\ itsGeoTrees = EmptyMap
  /\ itsTernaryTrees = EmptyMap
  /\ itsLangTernaryTreeMap = EmptyMap
  /\ lastQuery = NoQuery

\* the data of the generations is left out where the engine is checked
DataIdle ==
  /\ fminames = Database(9, {}, [g \in 1..3 |-> {}])
  /\ DataEmpty

ThreadsIdle ==
  /\ shutPc = "idle"
  /\ shutGen = NoGen
  /\ rpc = [r \in Reloaders |-> "idle"]
  /\ rp = [r \in Reloaders |-> NoGen]
  /\ rret = [r \in Reloaders |-> <<>>]
  /\ qpc = [q \in Queries |-> "idle"]
  /\ qkind = [q \in Queries |-> "nameSearch"]
  /\ qstep = [q \in Queries |-> 1]
  /\ qgen = [q \in Queries |-> NoGen]
  /\ qgens = [q \in Queries |-> {}]
  /\ qres = [q \in Queries |-> "none"]

\* The engine after Engine::init has returned, the state in which reloads are
\* requested: the loader task of the first generation has completed or is
\* about to set its ready flags.
Init ==
  /\ mode \in Modes
  /\ impl = FirstGen
  /\ tmpImpl = FirstGen
  /\ itsReloading = FALSE
  /\ itsErrorMessage = MsgNone
  /\ initFailed = FALSE
  /\ \E first \in {LoadedImpl(mode), LoadingImpl(mode)} :
       gens = [g \in Gens |-> IF g = FirstGen THEN first ELSE NoImpl]
  /\ killed = FALSE
  /\ initPc = "done"
  /\ ThreadsIdle
  /\ UnitIdle
  /\ CacheIdle
  /\ DataIdle

ReloadStep(r) ==
  \/ ReloadEnter(r)
  \/ ReloadReject(r)
  \/ ReloadSetFlag(r)
  \/ ReloadConstruct(r)
  \/ ReloadImplInit(r)
  \/ ReloadCheck(r)
  \/ ReloadFailReturn(r)
  \/ ReloadStoreMsg(r)
  \/ ReloadSuccessReturn(r)
  \/ ReloadCatchClear(r)
  \/ ReloadCatchReturn(r)

QueryStep(q) ==
  \/ QueryStart(q)
  \/ QueryLoad(q)
  \/ QueryUse(q)
  \/ SuggestCheck(q)
  \/ SuggestRead(q)
  \/ NearestPoll(q)
  \/ NearestSleep(q)
  \/ NearestRead(q)
  \/ QueryReturn(q)

Next ==
  \/ \E r \in Reloaders : ReloadStep(r)
  \/ \E q \in Queries : QueryStep(q)
  \/ \E g \in Gens : LoaderStep(g)

Spec == Init /\ [][Next]_vars

\* The engine right after construction: Engine::init, the loader task of the
\* first generation, Engine::shutdown and the queries run concurrently.
InitStartup ==
  /\ mode \in Modes
  /\ impl = NoGen
  /\ tmpImpl = NoGen
  /\ itsReloading = FALSE
  /\ itsErrorMessage = MsgNone
  /\ initFailed = FALSE
  /\ gens = [g \in Gens |-> NoImpl]
  /\ killed = FALSE
  /\ initPc = "start"
  /\ ThreadsIdle
  /\ UnitIdle
  /\ CacheIdle
  /\ DataIdle

InitStep == InitConstruct \/ ImplInitBegin \/ ImplInitEnd \/ InitStore \/ InitFail

ShutdownStep ==
  \/ ShutdownStart
  \/ ShutdownLoadImpl
  \/ ShutdownCheckTmp
  \/ ShutdownCheckFailed
  \/ ShutdownSleep
  \/ ImplShutdownStop
  \/ ImplShutdownWait

NextStartup ==
  \/ InitStep
  \/ \E g \in Gens : LoaderStep(g)
  \/ ShutdownStep
  \/ \E q \in Queries : QueryStep(q)

SpecStartup == InitStartup /\ [][NextStartup]_vars

\* the scheduler runs every thread that can take a step
FairSpecStartup ==
  /\ SpecStartup
  /\ \A q \in Queries : WF_vars(QueryStep(q))

\* the scheduler runs the thread of Engine::shutdown and the loader tasks
FairSpecShutdown ==
  /\ SpecStartup
  /\ WF_vars(ShutdownStep)
  /\ \A g \in Gens : WF_vars(LoaderStep(g))

\* One generation that serves searches: its deny patterns are those of the
\* configuration, its cache starts empty.
InitCache ==
  /\ mode \in Modes
  /\ impl = FirstGen
  /\ tmpImpl = FirstGen
  /\ itsReloading = FALSE
  /\ itsErrorMessage = MsgNone
  /\ initFailed = FALSE
  /\ gens = [g \in Gens |-> IF g = FirstGen THEN LoadedImpl(mode) ELSE NoImpl]
  /\ killed = FALSE
  /\ initPc = "done"
  /\ ThreadsIdle
  /\ UnitIdle
  /\ cache = <<>>
  /\ deny \in DenyConfigs
  /\ lastOp = NoOp
  /\ DataIdle

NextCache ==
  \/ NameSearch
  \/ LonLatSearch
  \/ IdSearch
  \/ KeywordSearch
  \/ EngineSort
  \/ EngineAssignPriorities

SpecCache == InitCache /\ [][NextCache]_vars

\* A generation loads a database: Impl::initSuggest of an enabled database,
\* step by step.
InitLoad ==
  /\ mode = "full"
  /\ impl = FirstGen
  /\ tmpImpl = FirstGen
  /\ itsReloading = FALSE
  /\ itsErrorMessage = MsgNone
  /\ initFailed = FALSE
  /\ gens = [g \in Gens |-> IF g = FirstGen THEN LoadingImpl(mode) ELSE NoImpl]
  /\ killed = FALSE
  /\ initPc = "done"
  /\ ThreadsIdle
  /\ UnitIdle
  /\ CacheIdle
  /\ fminames \in Databases
  /\ DataEmpty

NextLoad == LoadStep

SpecLoad == InitLoad /\ [][NextLoad]_vars

\* A generation loads a database and then serves suggest and nearest point
\* queries.
InitSuggest ==
  /\ mode = "full"
  /\ impl = FirstGen
  /\ tmpImpl = FirstGen
  /\ itsReloading = FALSE
  /\ itsErrorMessage = MsgNone
  /\ initFailed = FALSE
  /\ gens = [g \in Gens |-> IF g = FirstGen THEN LoadingImpl(mode) ELSE NoImpl]
  /\ killed = FALSE
  /\ initPc = "done"
  /\ ThreadsIdle
  /\ UnitIdle
  /\ CacheIdle
  /\ fminames \in SuggestDatabases
  /\ DataEmpty

NextSuggest == LoadStep \/ Suggest \/ SuggestLanguages \/ NearestSearch \/ SuggestReturn

SpecSuggest == InitSuggest /\ [][NextSuggest]_vars

\* A caller ranks a list of locations, once or twice.
InitRank ==
  /\ mode = "full"
  /\ impl = FirstGen
  /\ tmpImpl = FirstGen
  /\ itsReloading = FALSE
  /\ itsErrorMessage = MsgNone
  /\ initFailed = FALSE
  /\ gens = [g \in Gens |-> IF g = FirstGen THEN LoadedImpl(mode) ELSE NoImpl]
  /\ killed = FALSE
  /\ initPc = "done"
  /\ ThreadsIdle
  /\ CacheIdle
  /\ DataIdle
  /\ ranked \in {[locs |-> l, calls |-> 0, once |-> <<>>] : l \in RankLists}
  /\ sql = NoSql

NextRank == AssignPriorities

SpecRank == InitRank /\ [][NextRank]_vars

\* A generation runs the SQL phase of initSuggest on a database some of whose
\* queries return nothing.
InitSql ==
  /\ mode = "full"
  /\ impl = FirstGen
  /\ tmpImpl = FirstGen
  /\ itsReloading = FALSE
  /\ itsErrorMessage = MsgNone
  /\ initFailed = FALSE
  /\ gens = [g \in Gens |-> IF g = FirstGen THEN LoadingImpl(mode) ELSE NoImpl]
  /\ killed = FALSE
  /\ initPc = "done"
  /\ ThreadsIdle
  /\ CacheIdle
  /\ DataIdle
  /\ ranked = NoRanked
  /\ \E strict \in BOOLEAN, reloading \in BOOLEAN, empty \in SUBSET {SqlPhases[i] : i \in 1..Len(SqlPhases)} :
       sql = SqlStart(strict, reloading, empty)

NextSql == SqlRead \/ SqlCatch \/ SqlDone

SpecSql == InitSql /\ [][NextSql]_vars

\* the thread of the loader runs
FairSpecSql == SpecSql /\ WF_vars(NextSql)

\* ------------------------------------------------------------------ claims

ReloadFailing == {"fail_clear", "catch_clear", "catch_msg"}
FailureTexts == {MsgLoadFailed, MsgException}
ReloadFailed(r) == rpc[r] = "returned" /\ rret[r][2] \in FailureTexts

\* C1: a reload whose load fails (itsReloadOK = false, or an exception while
\* the new Impl is constructed or initialised) never publishes: no step of
\* the failing call changes impl, its new generation is never the published
\* one, it returns false, it stores the failure text in itsErrorMessage, and
\* errorMessage() holds that text after the return when no other thread has
\* called reload.
C1_FailedReloadKeepsGeneration ==
  /\ [](\A r \in Reloaders :
         /\ rpc[r] \in ReloadFailing => rp[r] # impl
         /\ ReloadFailed(r) =>
              /\ rret[r][1] = FALSE
              /\ (\A s \in Reloaders \ {r} : rpc[s] = "idle") => itsErrorMessage = rret[r][2])
  /\ [][\A r \in Reloaders :
          /\ (rpc'[r] # rpc[r] /\ (rpc[r] \in ReloadFailing \/ rpc'[r] \in ReloadFailing))
               => impl' = impl
          /\ (rpc'[r] # rpc[r] /\ rpc'[r] = "fail_clear")
               => itsErrorMessage' = MsgLoadFailed
          /\ (rpc[r] = "catch_msg" /\ rpc'[r] = "returned")
               => itsErrorMessage' = MsgException]_vars

C1_Witness ==
  \E r \in Reloaders :
    /\ ReloadFailed(r)
    /\ rret[r] = <<FALSE, MsgLoadFailed>>
    /\ \A s \in Reloaders \ {r} : rpc[s] = "idle"
    /\ impl = FirstGen
    /\ itsErrorMessage = MsgLoadFailed
    /\ \E g \in Gens : gens[g].state = "dropped"

\* C2: at most one call of reload owns a new generation under construction at
\* any time.
C2_SingleBuilder == Cardinality({r \in Reloaders : rpc[r] \in {"init", "check"}}) <= 1

\* C3: every public query uses one generation only, for all of its steps.
C3_OneGenerationPerQuery == \A q \in Queries : Cardinality(qgens[q]) <= 1

\* C8: reload always returns a (bool, message) pair, the reloading flag is set
\* only while a call is between setting and clearing it, and a call is
\* rejected only while another call holds the flag.
C8_ReloadReturnsAndClears ==
  /\ [](/\ \A r \in Reloaders :
             rpc[r] = "returned" =>
               /\ Len(rret[r]) = 2
               /\ rret[r][1] \in BOOLEAN
               /\ rret[r][2] \in {MsgNone, MsgInProgress, MsgLoadFailed, MsgException}
        /\ itsReloading => \E r \in Reloaders : rpc[r] \in ReloadHolding)
  /\ [][\A r \in Reloaders :
          (rpc[r] \in ReloadIdle /\ rpc'[r] = "reject")
             => \E s \in Reloaders \ {r} : rpc[s] \in ReloadHolding]_vars

C8_Witness ==
  \E r \in Reloaders : \E s \in Reloaders \ {r} :
    /\ rpc[r] = "returned"
    /\ rret[r] = <<FALSE, MsgException>>
    /\ rpc[s] = "set"
    /\ ~itsReloading

\* C4: once a generation is published no loader step writes to it any more.
C4_NoWriteAfterPublication ==
  [][\A g \in Gens : impl = g => gens'[g].loaded = gens[g].loaded]_vars

\* C5: suggest reads the tries of a generation only when its suggest-ready
\* flag is true, and a suggest call that finds the flag false ends with the
\* error "Attempt to use geonames suggest before it is ready!".
C5_SuggestNeedsReady ==
  /\ [](\A q \in Queries : qpc[q] = "tries" => gens[qgen[q]].itsSuggestReadyFlag)
  /\ [][\A q \in Queries :
          (/\ qkind[q] \in SuggestKinds
           /\ qpc[q] = "use"
           /\ qpc'[q] # "use"
           /\ ~gens[qgen[q]].itsSuggestReadyFlag)
             => (qpc'[q] = "done" /\ qres'[q] = MsgNotReady)]_vars

C5_Witness ==
  \E q \in Queries :
    /\ qkind[q] = "suggestLanguages"
    /\ qpc[q] = "done"
    /\ qres[q] = MsgNotReady
    /\ ~gens[qgen[q]].itsSuggestReadyFlag
    /\ gens[qgen[q]].task = "running"

\* C6: the nearest-point query reads the spatial index of its generation only
\* when the suggest-ready flag of that generation is true, and once the flag
\* is true a polling query eventually returns.
C6_NearestWaitsForReady ==
  /\ [](\A q \in Queries : qpc[q] = "geotree" => gens[qgen[q]].itsSuggestReadyFlag)
  /\ \A q \in Queries :
       (qkind[q] = "nearest" /\ qpc[q] \in {"use", "sleep"}
          /\ gens[qgen[q]].itsSuggestReadyFlag) ~> (qpc[q] = "done")

C6_Witness ==
  \E q \in Queries :
    /\ qkind[q] = "nearest"
    /\ qpc[q] = "geotree"
    /\ qres[q] = "waited"

\* C7: shutdown acts on a generation (Impl::shutdown) only after Impl::init of
\* that generation has returned.
C7_ShutdownAfterInit ==
  shutPc \in {"impl_shutdown", "wait"} => initPc \notin {"made", "spawn"}

Searched(op) == op.kind # "none" /\ op.outcome # "disabled"

\* C9: the cache holds an empty result only under a name_search key: an empty
\* lonlat, id or keyword search comes from the database and inserts nothing,
\* while name_search inserts its result even when empty, so that the same
\* name search made again is answered by the cache without a database query.
C9_EmptyOnlyForNameSearch ==
  /\ [](\A i \in 1..Len(cache) : cache[i].value = <<>> => cache[i].key[1] = "name")
  /\ []((Searched(lastOp) /\ lastOp.kind # "name" /\ lastOp.result = <<>>)
          => (lastOp.db /\ ~lastOp.hit /\ CachePos(lastOp.key) = 0))
  /\ []((Searched(lastOp) /\ lastOp.kind = "name" /\ lastOp.outcome = "empty")
          => (CachePos(lastOp.key) # 0 /\ cache[CachePos(lastOp.key)].value = <<>>))
  /\ [][(/\ lastOp'.tick # lastOp.tick
         /\ lastOp.kind = "name" /\ lastOp.outcome = "empty"
         /\ lastOp'.key = lastOp.key)
           => (lastOp'.hit /\ ~lastOp'.db /\ lastOp'.result = <<>>)]_vars
  /\ [][(/\ lastOp'.tick # lastOp.tick
         /\ lastOp.kind \in {"lonlat", "id", "keyword"} /\ lastOp.outcome = "empty"
         /\ lastOp'.key = lastOp.key)
           => (lastOp'.db /\ ~lastOp'.hit)]_vars

C9_Witness ==
  /\ lastOp.kind = "name"
  /\ lastOp.hit
  /\ lastOp.result = <<>>
  /\ ~lastOp.db

\* C10: with the database enabled a name search fails with "Forbidden name
\* search" exactly when the name matches a deny pattern as a whole, on every
\* call; the failing call queries no database and leaves the cache as it was,
\* and no forbidden name is ever a key of the cache.
C10_ForbiddenNameSearch ==
  /\ []((Searched(lastOp) /\ lastOp.kind = "name")
          => ((lastOp.outcome = "forbidden") <=> Forbidden(lastOp.key[2], deny)))
  /\ [](lastOp.outcome = "forbidden" => (~lastOp.db /\ ~lastOp.hit))
  /\ [](\A i \in 1..Len(cache) :
          cache[i].key[1] = "name" => ~Forbidden(cache[i].key[2], deny))
  /\ [][(lastOp'.tick # lastOp.tick /\ lastOp'.outcome = "forbidden")
           => cache' = cache]_vars

C10_Witness ==
  /\ lastOp.kind = "name"
  /\ lastOp.outcome = "forbidden"
  /\ lastOp.key[2] = <<"h", ".", "p">>
  /\ Len(cache) > 0

\* the records of the store, the geoids of the store
StoreLocations == {itsLocations[i] : i \in 1..Len(itsLocations)}
StoreGeoIds == {itsLocations[i].geoid : i \in 1..Len(itsLocations)}

\* the locations a list of references, a near tree and a trie hold
ListLocations(list) == {itsLocations[list[j]] : j \in 1..Len(list)}
TreeLocations(tree) == {itsLocations[e.loc] : e \in tree}

\* C18: after a load no two records of the location store have the same
\* geoid, also when a place is a member of more than one keyword.
C18_UniqueGeoids ==
  loadPc = "ready" =>
    \A i, j \in 1..Len(itsLocations) :
      itsLocations[i].geoid = itsLocations[j].geoid => i = j

\* C19: after a load every geoid key of the alternate-name table, every
\* member of every keyword list and every entry of every near tree and trie
\* refers to a location that is in the store.
C19_ReferencesInStore ==
  loadPc = "ready" =>
    /\ DOMAIN itsAlternateNames \subseteq StoreGeoIds
    /\ \A k \in DOMAIN itsKeywords : \A j \in 1..Len(itsKeywords[k]) :
         itsKeywords[k][j] \in 1..Len(itsLocations)
    /\ \A k \in DOMAIN itsGeoTrees : \A j \in 1..Len(itsGeoTrees[k]) :
         itsGeoTrees[k][j] \in 1..Len(itsLocations)
    /\ \A k \in DOMAIN itsTernaryTrees : \A e \in itsTernaryTrees[k] :
         e.loc \in 1..Len(itsLocations) /\ e.key[3] \in StoreGeoIds
    /\ \A l \in DOMAIN itsLangTernaryTreeMap : \A k \in DOMAIN itsLangTernaryTreeMap[l] :
         \A e \in itsLangTernaryTreeMap[l][k] :
           e.loc \in 1..Len(itsLocations) /\ e.key[3] \in StoreGeoIds

\* C20: after a successful load, for every keyword K of the database and
\* every stored location L: L is a member of the list of K iff the near tree
\* of K holds L iff the trie of K holds a normalized form of L; the near tree
\* and the trie of keyword all hold exactly the locations of the store.
C20_KeywordIndexesAgree ==
  loadPc = "ready" =>
    /\ DOMAIN itsGeoTrees = DOMAIN itsKeywords \cup {FMINAMES_DEFAULT_KEYWORD}
    /\ DOMAIN itsTernaryTrees = DOMAIN itsKeywords \cup {FMINAMES_DEFAULT_KEYWORD}
    /\ \A k \in DOMAIN itsKeywords \ {FMINAMES_DEFAULT_KEYWORD} :
         \A i \in 1..Len(itsLocations) :
           LET L == itsLocations[i]
               member == L \in ListLocations(itsKeywords[k])
               near == L \in ListLocations(itsGeoTrees[k])
               trie == \E e \in itsTernaryTrees[k] :
                         /\ itsLocations[e.loc] = L
                         /\ e.key \in to_treewords(preprocess_name(L.name), Specifier(i))
           IN (member <=> near) /\ (near <=> trie)
    /\ ListLocations(itsGeoTrees[FMINAMES_DEFAULT_KEYWORD]) = StoreLocations
    /\ TreeLocations(itsTernaryTrees[FMINAMES_DEFAULT_KEYWORD]) = StoreLocations
    /\ \A i \in 1..Len(itsLocations) :
         \E e \in itsTernaryTrees[FMINAMES_DEFAULT_KEYWORD] :
           /\ itsLocations[e.loc] = itsLocations[i]
           /\ e.key \in to_treewords(preprocess_name(itsLocations[i].name), Specifier(i))

\* a loaded store of several places with a keyword that has some of them
C20_Witness ==
  /\ loadPc = "ready"
  /\ Cardinality(StoreGeoIds) = 3
  /\ \E k \in DOMAIN itsKeywords :
       /\ ListLocations(itsKeywords[k]) # {}
       /\ ListLocations(itsKeywords[k]) # StoreLocations
       /\ ListLocations(itsGeoTrees[k]) = ListLocations(itsKeywords[k])

\* the last query was the single-language suggest and returned
SuggestReturned == lastQuery.kind = "suggest" /\ lastQuery.outcome # "aborted"

\* every keyword of the last suggest has a trie
KeywordsKnown ==
  \A k \in 1..Len(split(lastQuery.keyword)) :
    split(lastQuery.keyword)[k] \in DOMAIN itsTernaryTrees

\* the result of the last suggest without paging
UnpagedList ==
  IF KeywordsKnown
  THEN SuggestList(lastQuery.pattern, lastQuery.predicate, lastQuery.lang,
                   split(lastQuery.keyword), lastQuery.duplicates)
  ELSE <<>>

\* the candidates of the last suggest before duplicates are removed
TranslatedCandidates ==
  IF KeywordsKnown
  THEN translate_list(filter_features(SuggestMatches(lastQuery.pattern, lastQuery.lang,
                                                     split(lastQuery.keyword)),
                                      lastQuery.predicate),
                      lastQuery.lang)
  ELSE <<>>

\* the priority the load gave the stored location of a geoid
StorePriority(geoid) == itsLocations[itsGeoIdMap[geoid]].priority

ExactMatchBonus == itsNameMatchPriority * priority_scale

\* C11: page k of size p >= 1 of a suggest query is entries k*p+1 .. (k+1)*p
\* of the unpaged result of the query, for every page number k, so that the
\* pages 0..N-1 concatenate to the first N*p entries with nothing repeated
\* or skipped.
C11_PagesConcatenate ==
  (lastQuery.kind = "suggest" /\ lastQuery.maxresults >= 1) =>
    /\ lastQuery.outcome # "aborted"
    /\ lastQuery.result =
         SubSeq(UnpagedList, lastQuery.page * lastQuery.maxresults + 1,
                Min(Len(UnpagedList), (lastQuery.page + 1) * lastQuery.maxresults))

\* C12: in the single-language suggest every returned candidate whose
\* normalized name equals the normalized pattern has got the exact-match
\* bonus exactly once, whether the canonical trie or the trie of the language
\* matched it, and stands before every returned candidate of the same rank
\* whose name differs.
C12_ExactMatchFirst ==
  SuggestReturned =>
    \A j \in 1..Len(lastQuery.result) :
      LET e == lastQuery.result[j].loc
      IN to_treeword(e.name) = to_treeword(lastQuery.pattern) =>
           /\ e.priority = StorePriority(e.geoid) + ExactMatchBonus
           /\ \A k \in 1..Len(lastQuery.result) :
                LET f == lastQuery.result[k].loc
                IN (/\ to_treeword(f.name) # to_treeword(lastQuery.pattern)
                    /\ StorePriority(f.geoid) = StorePriority(e.geoid)) => j < k

\* C13: a suggest result with duplicates = false has no two entries of equal
\* translated (name, iso2, area), and the entry that remains of a group of
\* equal tuples has the highest priority of the group.
C13_NoEqualTuples ==
  (SuggestReturned /\ ~lastQuery.duplicates) =>
    /\ \A j, k \in 1..Len(lastQuery.result) :
         closeEnough(lastQuery.result[j], lastQuery.result[k]) => j = k
    /\ \A j \in 1..Len(lastQuery.result) : \A c \in 1..Len(TranslatedCandidates) :
         closeEnough(TranslatedCandidates[c], lastQuery.result[j])
           => TranslatedCandidates[c].loc.priority <= lastQuery.result[j].loc.priority

\* two places of one name, country and area and of different priority were
\* found, the one of the higher priority was returned
C13_Witness ==
  /\ SuggestReturned
  /\ ~lastQuery.duplicates
  /\ lastQuery.outcome = "ok"
  /\ \E j \in 1..Len(lastQuery.result) : \E c \in 1..Len(TranslatedCandidates) :
       /\ closeEnough(TranslatedCandidates[c], lastQuery.result[j])
       /\ TranslatedCandidates[c].loc.geoid # lastQuery.result[j].loc.geoid
       /\ TranslatedCandidates[c].loc.priority < lastQuery.result[j].loc.priority

\* C14: a suggest result with duplicates = true has no two entries of the
\* same geoid, and keeps the entries of different geoids whose name, iso2
\* and area are equal.
C14_NoEqualGeoids ==
  (SuggestReturned /\ lastQuery.duplicates) =>
    /\ \A j, k \in 1..Len(lastQuery.result) :
         reallyClose(lastQuery.result[j], lastQuery.result[k]) => j = k
    /\ (lastQuery.maxresults = 0 =>
          \A c \in 1..Len(TranslatedCandidates) : \E j \in 1..Len(lastQuery.result) :
             reallyClose(TranslatedCandidates[c], lastQuery.result[j]))

\* C15: an unknown keyword is an empty result and no error: suggest returns
\* the empty list when one keyword of its list has no trie, the suggest for
\* several languages returns nothing for a keyword without a trie, the
\* nearest point query returns no location for a keyword without a near tree.
C15_UnknownKeywordEmpty ==
  /\ (lastQuery.kind = "suggest" /\ ~KeywordsKnown)
       => (lastQuery.outcome = "ok" /\ lastQuery.result = <<>>)
  /\ (lastQuery.kind = "suggest_languages" /\ Len(lastQuery.languages) >= 2
      /\ lastQuery.keyword \notin DOMAIN itsTernaryTrees)
       => (lastQuery.outcome = "ok" /\ lastQuery.result = <<>>)
  /\ (lastQuery.kind = "nearest" /\ lastQuery.keyword \notin DOMAIN itsGeoTrees)
       => (lastQuery.outcome = "ok" /\ lastQuery.result = <<>>)

\* a suggest of a list with a known keyword that has matches and an unknown
\* one returned the empty list
C15_Witness ==
  /\ lastQuery.kind = "suggest"
  /\ lastQuery.keyword = "all,nokeyword"
  /\ lastQuery.pattern = "i"
  /\ lastQuery.outcome = "ok"
  /\ lastQuery.result = <<>>
  /\ findprefix(itsTernaryTrees["all"], "i") # <<>>

\* the last query was the suggest for several languages and returned
LanguagesReturned ==
  /\ lastQuery.kind = "suggest_languages"
  /\ lastQuery.outcome \notin {"error", "aborted"}

\* the stored location of the geoid of a returned record
Stored(r) == itsLocations[itsGeoIdMap[r.geoid]]

\* two records agree in every field but the translated ones
SameButTranslated(a, b) ==
  [a EXCEPT !.name = b.name, !.area = b.area, !.country = b.country] = b

\* the lists of the last suggest for several languages: one list for each
\* language, in the order of the languages, of one length, with the same
\* geoid at each position and records that differ only in name, area and
\* country
ListsAgree ==
  /\ Len(lastQuery.result) = Len(lastQuery.languages)
  /\ \A l \in 1..Len(lastQuery.result) :
       /\ Len(lastQuery.result[l]) = Len(lastQuery.result[1])
       /\ \A j \in 1..Len(lastQuery.result[l]) :
            /\ lastQuery.result[l][j].loc.geoid = lastQuery.result[1][j].loc.geoid
            /\ SameButTranslated(lastQuery.result[l][j].loc, lastQuery.result[1][j].loc)
            /\ lastQuery.result[l][j].loc =
                 translate(Ptr(itsGeoIdMap[lastQuery.result[l][j].loc.geoid]),
                           lastQuery.languages[l]).loc

\* C16 as stated: the suggest for several languages returns one list for
\* each language requested, in the order of the languages, all of one length
\* and with the same geoid at each position, the records differing only in
\* name, area and country.
C16_OneListPerLanguage == LanguagesReturned => ListsAgree

\* C16: the suggest for several languages of a keyword that has a trie
\* returns one list for each language requested, in the order of the
\* languages, all of one length and with the same geoid at each position, the
\* records differing only in name, area and country; for a keyword without a
\* trie it returns no list at all.
C16_OneListPerLanguageOfKnownKeyword ==
  LanguagesReturned =>
    IF lastQuery.keyword \in DOMAIN itsTernaryTrees
    THEN ListsAgree
    ELSE lastQuery.result = <<>>

\* two languages were asked, both lists have two places and differ in a name
C16_Witness ==
  /\ LanguagesReturned
  /\ lastQuery.outcome = "ok"
  /\ lastQuery.keyword \in DOMAIN itsTernaryTrees
  /\ Len(lastQuery.result) = 2
  /\ Len(lastQuery.result[1]) >= 2
  /\ \E j \in 1..Len(lastQuery.result[1]) :
       lastQuery.result[1][j].loc.name # lastQuery.result[2][j].loc.name

\* a returned record is a record of its own that has the fields of the
\* stored location of its geoid except name, area and country, and a
\* priority that is the stored one or the stored one with the bonus
CopyOfStored(ptr, bonuses) ==
  /\ ptr.store = 0
  /\ ptr.loc.geoid \in DOMAIN itsGeoIdMap
  /\ SameButTranslated([ptr.loc EXCEPT !.priority = Stored(ptr.loc).priority],
                       Stored(ptr.loc))
  /\ ptr.loc.priority - Stored(ptr.loc).priority \in bonuses

\* C17: no query changes a location of the store of a loaded generation, and
\* every translated record that a query returns is a new record: the
\* translation and the exact-match bonus are applied to copies.
C17_QueriesKeepStore ==
  /\ [][loadPc = "ready" => itsLocations' = itsLocations]_vars
  /\ [](lastQuery.kind = "suggest" =>
          \A j \in 1..Len(lastQuery.result) :
            CopyOfStored(lastQuery.result[j], {0, ExactMatchBonus}))
  /\ [](lastQuery.kind = "nearest" =>
          \A j \in 1..Len(lastQuery.result) :
            CopyOfStored(lastQuery.result[j], {0}))
  /\ [](lastQuery.kind = "suggest_languages" =>
          \A l \in 1..Len(lastQuery.result) : \A j \in 1..Len(lastQuery.result[l]) :
            CopyOfStored(lastQuery.result[l][j], {0}))

\* a suggest returned a place under a translated name and with the bonus of
\* the exact match while the stored location has neither
C17_Witness ==
  /\ lastQuery.kind = "suggest"
  /\ lastQuery.outcome = "ok"
  /\ \E j \in 1..Len(lastQuery.result) :
       /\ lastQuery.result[j].loc.name # Stored(lastQuery.result[j].loc).name
       /\ lastQuery.result[j].loc.priority =
            Stored(lastQuery.result[j].loc).priority + ExactMatchBonus

\* round(x / y) for x >= 0 and y > 0, halves upwards
Round(x, y) == CHOOSE n \in 0..(x \div y + 1) : 2 * y * n <= 2 * x + y /\ 2 * x + y < 2 * y * (n + 1)

\* 1000 times the value of the key, else of the key default, else 0
TableScore(table, key) ==
  IF key \in DOMAIN table THEN 1000 * table[key]
  ELSE IF "default" \in DOMAIN table THEN 1000 * table["default"]
  ELSE 0

\* round(1000 * population / divisor), the divisor of iso2, else of default,
\* else no score
PopulationScore(loc) ==
  IF loc.iso2 \in DOMAIN PopulationPriorities
  THEN Round(1000 * loc.population, PopulationPriorities[loc.iso2])
  ELSE IF "default" \in DOMAIN PopulationPriorities
  THEN Round(1000 * loc.population, PopulationPriorities["default"])
  ELSE 0

\* C21: the priority given to a location is the sum of its population, area,
\* country and feature scores and depends only on iso2, population, area and
\* feature: the country and area scores are 1000 times the table value of the
\* key, else of default, else 0, the population score is
\* round(1000 * population / divisor) with the divisor of iso2, else of
\* default, else 0; assigning twice gives what assigning once gives.
C21_PriorityIsSumOfScores ==
  ranked.calls >= 1 =>
    /\ \A i \in 1..Len(ranked.locs) :
         ranked.locs[i].priority =
           PopulationScore(ranked.locs[i]) + TableScore(AreaPriorities, ranked.locs[i].area)
           + TableScore(CountryPriorities, ranked.locs[i].iso2)
           + featurePriority(ranked.locs[i])
    /\ \A i, j \in 1..Len(ranked.locs) :
         (/\ ranked.locs[i].iso2 = ranked.locs[j].iso2
          /\ ranked.locs[i].population = ranked.locs[j].population
          /\ ranked.locs[i].area = ranked.locs[j].area
          /\ ranked.locs[i].feature = ranked.locs[j].feature)
           => ranked.locs[i].priority = ranked.locs[j].priority
    /\ ranked.locs = ranked.once

\* a list of two locations that had different priorities was ranked twice,
\* the population score was rounded up from a half
C21_Witness ==
  /\ ranked.calls = 2
  /\ Len(ranked.locs) = 2
  /\ ranked.locs[1].iso2 = "FI"
  /\ ranked.locs[1].population = 9
  /\ ranked.locs[1].area = "Helsinki"
  /\ ranked.locs[1].priority = 5 + 2000 + 5000 + featurePriority(ranked.locs[1])

\* the feature score as stated: the value of (c, f), else the value found
\* for f in the table of country default, else 0
FeatureScore(loc) ==
  IF loc.iso2 \in DOMAIN FeaturePriorities /\ loc.feature \in DOMAIN FeaturePriorities[loc.iso2]
  THEN 1000 * FeaturePriorities[loc.iso2][loc.feature]
  ELSE IF "default" \in DOMAIN FeaturePriorities
  THEN TableScore(FeaturePriorities["default"], loc.feature)
  ELSE 0

\* C22: the feature score of a location of country c and feature f is 1000
\* times the value of (c, f) in the nested table if there is one, else 1000
\* times the value found for f through the table of country default, else 0:
\* a country with a table of its own that lacks f falls back to the table of
\* country default.
C22_FeatureFallsBackToDefaultCountry ==
  ranked.calls >= 1 =>
    \A i \in 1..Len(ranked.locs) : featurePriority(ranked.locs[i]) = FeatureScore(ranked.locs[i])

\* every location of the list has the priority the ranker gives it
Ranked(locs) == \A j \in 1..Len(locs) : locs[j].priority = getPriority(locs[j])

\* the last search fetched its result from the database
Fetched(op) == Searched(op) /\ op.db /\ op.outcome \in {"found", "empty"}

\* C23: every list that name_search, lonlat_search, id_search or
\* keyword_search fetches from the database has the ranker applied to each of
\* its locations before it is inserted into the cache and returned, so that a
\* cache hit and a cache miss of one search return the same priorities.
C23_RankedBeforeCached ==
  /\ \A i \in 1..Len(cache) : Ranked(cache[i].value)
  /\ Searched(lastOp) => Ranked(lastOp.result)

\* the list at positions 1..n of a list
FirstN(list, n) == SubSeq(list, 1, IF n < Len(list) THEN n ELSE Len(list))

\* the limit of the options of a search of the cache
LimitOf(key) == key[3].limit

\* C28: name_search with a result limit n > 0 fetches with the limit
\* max(n, 100), ranks and sorts the fetched list by priority and then trims:
\* the result is the first n locations of the fetched list in the order of
\* the priorities (priority descending, then normalized name, then area); with
\* limit 0 nothing is trimmed. The trimmed list is what the cache holds and
\* what a later hit of the cache returns.
C28_TrimAfterPrioritySort ==
  /\ [](\A i \in 1..Len(cache) :
          cache[i].key[1] = "name" =>
            /\ LimitOf(cache[i].key) > 0 => Len(cache[i].value) <= LimitOf(cache[i].key)
            /\ Ranked(cache[i].value)
            /\ \A j, k \in 1..Len(cache[i].value) :
                 j < k => ~prioritySort(cache[i].value[k], cache[i].value[j]))
  /\ []((Fetched(lastOp) /\ lastOp.kind = "name") =>
          LET n == LimitOf(lastOp.key)
              sorted == ListSort(prioritySort, assign_priorities(lastOp.fetched))
          IN /\ lastOp.fetched \in DbFetch(IF n = 0 THEN 0 ELSE IF n > 100 THEN n ELSE 100)
             /\ lastOp.result = IF n > 0 THEN FirstN(sorted, n) ELSE sorted
             /\ cache[1] = [key |-> lastOp.key, value |-> lastOp.result])
  /\ [][(/\ lastOp'.tick # lastOp.tick
         /\ lastOp'.kind = "name"
         /\ lastOp'.hit)
           => (/\ CachePos(lastOp'.key) # 0
               /\ lastOp'.result = cache[CachePos(lastOp'.key)].value)]_vars

\* the database gave Ii before Iisalmi, a name search of limit 1 returned
\* Iisalmi, the place of the higher priority
C28_Witness ==
  /\ Fetched(lastOp)
  /\ lastOp.kind = "name"
  /\ LimitOf(lastOp.key) = 1
  /\ Len(lastOp.fetched) = 2
  /\ lastOp.fetched[1].geoid = 1
  /\ Len(lastOp.result) = 1
  /\ lastOp.result[1].geoid = 2

\* C29: a record that the cache holds is never modified after it was
\* inserted: whatever searches are made and whatever lists that the searches
\* returned are handed to Engine::sort or Engine::assign_priorities, an entry
\* that stays in the cache keeps the field values, the priority among them,
\* that its locations had when it was inserted.
C29_CachedRecordsKept ==
  [][\A i \in 1..Len(cache) : \A j \in 1..Len(cache') :
       cache[i].key = cache'[j].key => cache[i].value = cache'[j].value]_vars

\* C24 as stated: with strict mode on an empty result set of any query of
\* the load (fingerprint, countries, alternate countries, municipalities,
\* places, alternate place names, alternate municipalities, keywords) makes
\* the load fail; with strict mode off it is a warning and the load completes.
C24_StrictFailsOnAnyEmptyPhase ==
  /\ (sql.outcome = "ready" /\ sql.strict) => sql.empty = {}
  /\ sql.outcome \in {"thrown", "killed", "reload_error"} => sql.strict

\* C24: with strict mode on an empty result set of the fingerprint, the
\* countries, the alternate countries, the places, the alternate place names
\* or the keywords makes the load fail, fatally at first construction and as
\* the recorded reload error in a reload, while empty municipalities and
\* empty alternate municipalities are accepted; with strict mode off no empty
\* result set fails the load, which goes on to completion.
C24_StrictFailsOnEmptyResult ==
  /\ []((sql.outcome = "ready" /\ sql.strict) => sql.empty \cap ThrowsIfEmpty = {})
  /\ [](sql.outcome \in {"thrown", "killed", "reload_error"} =>
          /\ sql.strict
          /\ sql.pc <= Len(SqlPhases)
          /\ SqlPhases[sql.pc] \in sql.empty \cap ThrowsIfEmpty)
  /\ [](sql.outcome = "killed" => ~sql.reloading)
  /\ [](sql.outcome = "reload_error" => sql.reloading)
  /\ ((sql.outcome = "running" /\ (sql.strict => sql.empty \cap ThrowsIfEmpty = {}))
        ~> sql.outcome = "ready")
  /\ ((sql.outcome = "running" /\ sql.strict /\ sql.empty \cap ThrowsIfEmpty # {})
        ~> sql.outcome \in {"killed", "reload_error"})

\* a strict reload whose keywords query, the last one, returned nothing while
\* the municipalities were empty too: the error was recorded at the keywords
C24_Witness ==
  /\ sql.strict
  /\ sql.reloading
  /\ sql.empty = {"municipalities", "keywords"}
  /\ sql.outcome = "reload_error"
  /\ SqlPhases[sql.pc] = "keywords"

\* the position of a step in the load of the mode, 0 if it is not part of it
StepPos(step) ==
  IF \E i \in 1..Len(LoadSteps(mode)) : LoadSteps(mode)[i] = step
  THEN CHOOSE i \in 1..Len(LoadSteps(mode)) : LoadSteps(mode)[i] = step
  ELSE 0

\* step a of the load comes before step b where both are part of the load
Before(a, b) == (StepPos(a) # 0 /\ StepPos(b) # 0) => StepPos(a) < StepPos(b)

\* C25: in every generation the suggest-ready flag starts false, is set at
\* most once and never returns to false; it is set only after the geoid map,
\* the keyword lists, the spatial indices, the tries and the language tries
\* are complete and the priorities are assigned (the geoid map before the
\* alternate names and the keywords are read); reload-ok is true whenever
\* suggest-ready is; a generation whose load fails or is interrupted never
\* sets the flag.
C25_SuggestReadyFlag ==
  /\ [](\A g \in Gens :
          gens[g].itsSuggestReadyFlag =>
            /\ gens[g].itsReloadOK
            /\ gens[g].loaded = Len(LoadSteps(mode))
            /\ gens[g].itsReloadError = MsgNone
            /\ gens[g].task # "interrupted")
  /\ [](/\ Before("geoid_map", "alternate_geonames")
        /\ Before("geoid_map", "keywords")
        /\ \A st \in {"geoid_map", "keywords", "geotrees", "ternarytrees",
                      "lang_ternarytrees"} : Before(st, "priorities")
        /\ StepPos("priorities") = Len(LoadSteps(mode)))
  /\ [][\A g \in Gens :
          /\ (gens[g].state = "unborn" /\ gens'[g].state = "live")
               => ~gens'[g].itsSuggestReadyFlag
          /\ (gens[g].itsSuggestReadyFlag /\ gens'[g].state = "live")
               => gens'[g].itsSuggestReadyFlag
          /\ (gens[g].itsReloadError # MsgNone \/ gens[g].task = "interrupted")
               => ~gens'[g].itsSuggestReadyFlag]_vars

\* the loader task of the first generation has run all the steps of a load
\* from the database and set the flag
C25_Witness ==
  /\ mode = "full"
  /\ gens[FirstGen].state = "live"
  /\ gens[FirstGen].task = "done"
  /\ gens[FirstGen].itsSuggestReadyFlag
  /\ gens[FirstGen].loaded = 12

\* C26: the suggest for several languages applies the predicate of the
\* caller to the candidates as the suggest for one language does: no location
\* for which the predicate is true (true = remove) is in any of the lists
\* returned.
C26_LanguagesFiltered ==
  LanguagesReturned =>
    \A l \in 1..Len(lastQuery.result) : \A j \in 1..Len(lastQuery.result[l]) :
      ~Predicate(lastQuery.predicate, lastQuery.result[l][j])

\* the entries of a list at the positions [first, last), counted from 0
Slice(list, first, last) == SubSeq(list, first + 1, IF last < Len(list) THEN last ELSE Len(list))

\* the candidates of the last suggest for several languages before the page
\* is cut
UnpagedCandidates ==
  SortUnique(findprefix(itsTernaryTrees[lastQuery.keyword], to_treeword(lastQuery.pattern))
             \o LangsMatches(lastQuery.languages, lastQuery.keyword,
                             to_treeword(lastQuery.pattern)),
             lastQuery.duplicates)

\* C27: for every page and page size suggest returns the entries at the
\* positions [page * size, (page + 1) * size) of the filtered, deduplicated,
\* priority-sorted candidates; the result is empty when the slice is, as it
\* is for page size 0 and for a page that starts past the end of the list.
C27_SliceOfCandidates ==
  /\ lastQuery.kind = "suggest" =>
       /\ lastQuery.outcome # "aborted"
       /\ lastQuery.result = Slice(UnpagedList, lastQuery.page * lastQuery.maxresults,
                                   (lastQuery.page + 1) * lastQuery.maxresults)
  /\ (/\ lastQuery.kind = "suggest_languages"
      /\ Len(lastQuery.languages) >= 2
      /\ lastQuery.keyword \in DOMAIN itsTernaryTrees) =>
       /\ lastQuery.outcome # "aborted"
       /\ \A l \in 1..Len(lastQuery.result) :
            lastQuery.result[l] =
              translate_list(Slice(UnpagedCandidates, lastQuery.page * lastQuery.maxresults,
                                   (lastQuery.page + 1) * lastQuery.maxresults),
                             lastQuery.languages[l])

====
